---- MODULE Spec2Model ----
(***************************************************************************)
(* A model of the SME self-assessment wizards.                             *)
(*                                                                         *)
(* src/streamlit_app.py: the scenario wizard (session state, the stage     *)
(* handlers, the scoring helpers score_selection, evaluate_scenario,       *)
(* compute_domain_scores_from_sims, overall_score, strengths_and_fixes and *)
(* the export payload).                                                    *)
(*                                                                         *)
(* Numbers.  The Python code computes with floats.  The model computes     *)
(* with exact rationals [n |-> numerator, d |-> denominator], d > 0, kept  *)
(* in lowest terms.  Non-ASCII characters of the catalog strings (dashes,  *)
(* curly quotes) are written with their ASCII look-alikes.                 *)
(***************************************************************************)
EXTENDS Integers, Sequences, FiniteSets, TLC

VARIABLES
    stage,        \* st.session_state.stage
    profile,      \* st.session_state.profile
    answers,      \* st.session_state.answers      (dict, insertion ordered)
    idx,          \* st.session_state.idx
    sim_idx,      \* st.session_state.sim_idx
    sim_answers,  \* st.session_state.sim_answers  (dict, insertion ordered)
    pc,           \* position of a direct call of a scoring helper
    args,         \* the arguments of that call
    result,       \* what the call returned
    ns,           \* st.session_state of newstreamlit.py (dict, insertion ordered)
    choice,       \* newstreamlit.py's global choice, the sidebar radio's value
    pressed       \* what the page's primary button returned in the run

vars == <<stage, profile, answers, idx, sim_idx, sim_answers, pc, args, result,
          ns, choice, pressed>>

session == <<stage, profile, answers, idx, sim_idx, sim_answers>>

call == <<pc, args, result>>

wizard == <<ns, choice, pressed>>

\* newstreamlit.py before its first run: an empty session
NoWizard ==
    /\ ns = <<>>
    /\ choice = ""
    /\ pressed = FALSE

-----------------------------------------------------------------------------
(* Exact arithmetic standing for Python's float arithmetic.                *)

Abs(x) == IF x < 0 THEN -x ELSE x

RECURSIVE GCD(_, _)
GCD(a, b) == IF b = 0 THEN a ELSE GCD(b, a % b)

\* The rational n/d in lowest terms with a positive denominator.
Rat(n, d) ==
    LET s == IF d < 0 THEN -1 ELSE 1
        g == GCD(Abs(n), Abs(d))
    IN  [n |-> (s * n) \div g, d |-> (s * d) \div g]

R(k) == [n |-> k, d |-> 1]

RAdd(x, y) == Rat(x.n * y.d + y.n * x.d, x.d * y.d)

RSub(x, y) == Rat(x.n * y.d - y.n * x.d, x.d * y.d)

RMul(x, y) == Rat(x.n * y.n, x.d * y.d)

RDiv(x, y) == Rat(x.n * y.d, x.d * y.n)

RLe(x, y) == x.n * y.d <= y.n * x.d

RLt(x, y) == x.n * y.d < y.n * x.d

RGe(x, y) == RLe(y, x)

RMax(x, y) == IF RLt(x, y) THEN y ELSE x

RMin(x, y) == IF RLt(y, x) THEN y ELSE x

\* floor(x) for a rational x (\div rounds towards minus infinity).
RFloor(x) == x.n \div x.d

\* Python's round(x): the nearest integer, a tie going to the even one.
round(x) ==
    LET f    == RFloor(x)
        rem2 == 2 * (x.n - f * x.d)      \* 2 * (x - f) * d, in 0 .. 2d-1
    IN  IF rem2 < x.d THEN f
        ELSE IF rem2 > x.d THEN f + 1
        ELSE IF f % 2 = 0 THEN f ELSE f + 1

\* x cut to one decimal instead of rounded
round1_down(x) == Rat(RFloor(RMul(x, R(10))), 10)

\* Python's round(x, 1): x rounded to one decimal, as a rational.
round1(x) == Rat(round(RMul(x, R(10))), 10)

-----------------------------------------------------------------------------
(* Python's dict: a sequence of <<key, value>> entries in insertion order. *)

DictKeys(dct) == {dct[i][1] : i \in 1..Len(dct)}

DictHas(dct, k) == k \in DictKeys(dct)

DictIndex(dct, k) == CHOOSE i \in 1..Len(dct) : dct[i][1] = k

\* dct[k], for a key that is present
DictAt(dct, k) == dct[DictIndex(dct, k)][2]

\* dct.get(k, default)
DictGet(dct, k, default) == IF DictHas(dct, k) THEN DictAt(dct, k) ELSE default

\* dct[k] = v: an existing key keeps its place, a new key goes last
DictSet(dct, k, v) ==
    IF DictHas(dct, k)
    THEN [dct EXCEPT ![DictIndex(dct, k)] = <<k, v>>]
    ELSE Append(dct, <<k, v>>)

\* dct.pop(k, None)
DictPop(dct, k) == SelectSeq(dct, LAMBDA e : e[1] # k)

-----------------------------------------------------------------------------
(* Python list helpers.                                                    *)

Range(s) == {s[i] : i \in 1..Len(s)}

\* a list comprehension: the list is built when the comprehension runs
List(s) == s \o <<>>

RECURSIVE SumSeq(_)
SumSeq(s) == IF s = <<>> THEN 0 ELSE Head(s) + SumSeq(Tail(s))

\* s[:k]
Prefix(s, k) == SubSeq(s, 1, IF k < Len(s) THEN k ELSE Len(s))

\* x put into the descending sequence s
RECURSIVE InsertDesc(_, _)
InsertDesc(x, s) ==
    IF s = <<>> THEN <<x>>
    ELSE IF x >= Head(s) THEN <<x>> \o s
    ELSE <<Head(s)>> \o InsertDesc(x, Tail(s))

\* sorted(s, reverse=True)
RECURSIVE SortedDesc(_)
SortedDesc(s) == IF s = <<>> THEN <<>> ELSE InsertDesc(Head(s), SortedDesc(Tail(s)))

Max0(w) == IF w > 0 THEN w ELSE 0

-----------------------------------------------------------------------------
(* The catalogs: QUESTIONS (stage 1), SCENARIOS (stage 2) and DOMAINS.     *)
(* A scenario's domain_map is a dict: <<domain, proportion>> entries.      *)

QUESTIONS == <<
    [id |-> "sell_online", type |-> "choice",
     choices |-> <<"Yes - on my own website",
                  "Yes - via marketplaces (Amazon/Etsy)",
                  "No - mostly offline">>],
    [id |-> "data_types", type |-> "choice",
     choices |-> <<"Yes",
                  "No">>],
    [id |-> "tools_regular", type |-> "multi",
     choices |-> <<"Email",
                  "Accounting/finance software",
                  "CRM or client database",
                  "Cloud storage (Google Drive/OneDrive etc.)",
                  "Online payment system",
                  "Website or webshop">>],
    [id |-> "website_owner", type |-> "choice",
     choices |-> <<"I do it myself",
                  "Someone on my team",
                  "An external company or freelancer">>],
    [id |-> "it_support", type |-> "choice",
     choices |-> <<"I do",
                  "A friend/freelancer",
                  "An IT company",
                  "In-house IT team">>],
    [id |-> "setup_by", type |-> "choice",
     choices |-> <<"Yes, mostly me",
                  "Shared effort",
                  "Someone else handled it">>],
    [id |-> "asset_list", type |-> "choice",
     choices |-> <<"Yes, documented",
                  "Rough idea",
                  "Not really">>],
    [id |-> "third_parties", type |-> "choice",
     choices |-> <<"Yes",
                  "No">>],
    [id |-> "partner_count", type |-> "choice",
     choices |-> <<"0-2",
                  "3-5",
                  "6+">>],
    [id |-> "breach_contact", type |-> "choice",
     choices |-> <<"Yes - I know who to reach",
                  "Not really sure">>],
    [id |-> "confidence", type |-> "choice",
     choices |-> <<"Not at all",
                  "Somewhat",
                  "Fairly confident",
                  "Very confident">>],
    [id |-> "past_incidents", type |-> "choice",
     choices |-> <<"Yes",
                  "No",
                  "Not sure">>],
    [id |-> "know_who_to_call", type |-> "choice",
     choices |-> <<"Yes",
                  "No">>]
  >>

SCENARIOS == <<
    [id |-> "s1_invoice",
     title |-> "Supplier invoice change",
     tasks |-> [
       cues |-> [
         options |-> <<
           [text |-> "New bank details + urgency", tag |-> "cue_new_iban", weight |-> 2],
           [text |-> "Reply-To differs from display name", tag |-> "cue_replyto", weight |-> 2],
           [text |-> "Link domain not the usual portal", tag |-> "cue_domain", weight |-> 2],
           [text |-> "Looks fine to me", tag |-> "cue_none", weight |-> -2] >>,
         max_select |-> 3],
       actions |-> [
         options |-> <<
           [text |-> "Call supplier via number in finance contacts", tag |-> "oob_verify", weight |-> 3],
           [text |-> "Reply to the email to confirm", tag |-> "reply_email", weight |-> -2],
           [text |-> "Ask finance to cross-check IBAN in ERP", tag |-> "crosscheck_iban", weight |-> 2],
           [text |-> "Click the button and log in to verify", tag |-> "click_link", weight |-> -3],
           [text |-> "Hold the payment and open a ticket", tag |-> "hold_and_ticket", weight |-> 2] >>,
         max_select |-> 2],
       confidence |-> [range |-> <<0, 100>>, default |-> 60]],
     domain_map |-> <<<<"Email & Awareness", Rat(5, 10)>>, <<"Response & Continuity", Rat(5, 10)>>>>,
     hint_fix |-> "Maintain a verified supplier contact list and require two-channel verification for bank detail changes."],
    [id |-> "s2_ceo",
     title |-> "CEO urgent payment request",
     tasks |-> [
       cues |-> [
         options |-> <<
           [text |-> "Non-corporate sender address", tag |-> "cue_sender", weight |-> 2],
           [text |-> "Bypass normal approvals", tag |-> "cue_bypass", weight |-> 2],
           [text |-> "Unusual time and secrecy", tag |-> "cue_timesecrecy", weight |-> 2],
           [text |-> "Nothing stands out", tag |-> "cue_none", weight |-> -2] >>,
         max_select |-> 3],
       actions |-> [
         options |-> <<
           [text |-> "Verify via known company channel", tag |-> "oob_verify", weight |-> 3],
           [text |-> "Proceed due to authority", tag |-> "comply_authority", weight |-> -3],
           [text |-> "Log the event and notify finance lead", tag |-> "log_and_notify", weight |-> 2],
           [text |-> "Ask for details by replying to the same email", tag |-> "reply_email", weight |-> -2] >>,
         max_select |-> 2],
       confidence |-> [range |-> <<0, 100>>, default |-> 65]],
     domain_map |-> <<<<"Governance", Rat(3, 10)>>, <<"Response & Continuity", Rat(7, 10)>>>>,
     hint_fix |-> "Document payment approvals; never bypass without two approvers and an out-of-band check."],
    [id |-> "s3_reset",
     title |-> "Password-reset alert",
     tasks |-> [
       cues |-> [
         options |-> <<
           [text |-> "Shortened or mismatched URL", tag |-> "cue_url", weight |-> 2],
           [text |-> "Generic greeting / odd branding", tag |-> "cue_generic", weight |-> 2],
           [text |-> "Time pressure to click", tag |-> "cue_pressure", weight |-> 2],
           [text |-> "Looks legit", tag |-> "cue_none", weight |-> -2] >>,
         max_select |-> 3],
       actions |-> [
         options |-> <<
           [text |-> "Navigate to the site yourself (no link)", tag |-> "nav_direct", weight |-> 3],
           [text |-> "Use the report-phish button", tag |-> "report_button", weight |-> 2],
           [text |-> "Click the link and log in to check", tag |-> "click_link", weight |-> -3],
           [text |-> "Reply asking if this is real", tag |-> "reply_email", weight |-> -2] >>,
         max_select |-> 2],
       confidence |-> [range |-> <<0, 100>>, default |-> 70]],
     domain_map |-> <<<<"Access & Accounts", Rat(5, 10)>>, <<"Email & Awareness", Rat(5, 10)>>>>,
     hint_fix |-> "Teach 'navigate, don't click'; enable an easy report button."],
    [id |-> "s4_laptop",
     title |-> "Laptop lost on the train",
     tasks |-> [
       cues |-> [
         options |-> <<
           [text |-> "Data may be accessible if not encrypted", tag |-> "cue_encrypt", weight |-> 2],
           [text |-> "Tokens/sessions may still be valid", tag |-> "cue_tokens", weight |-> 2],
           [text |-> "We can probably ignore if it's passworded", tag |-> "cue_ignore", weight |-> -2] >>,
         max_select |-> 2],
       actions |-> [
         options |-> <<
           [text |-> "Trigger remote wipe / lock", tag |-> "remote_wipe", weight |-> 3],
           [text |-> "Revoke tokens & reset credentials", tag |-> "revoke_tokens", weight |-> 2],
           [text |-> "Wait a week to see if it turns up", tag |-> "wait_and_see", weight |-> -3],
           [text |-> "Log the incident and notify insurer", tag |-> "log_and_notify", weight |-> 2] >>,
         max_select |-> 2],
       confidence |-> [range |-> <<0, 100>>, default |-> 60]],
     domain_map |-> <<<<"Devices", Rat(6, 10)>>, <<"Response & Continuity", Rat(4, 10)>>>>,
     hint_fix |-> "Enforce full-disk encryption and keep MDM ready for remote lock/wipe."],
    [id |-> "s5_share",
     title |-> "Cloud sharing mishap",
     tasks |-> [
       cues |-> [
         options |-> <<
           [text |-> "Public link and no expiry", tag |-> "cue_public", weight |-> 2],
           [text |-> "Sensitive data present", tag |-> "cue_sensitive", weight |-> 2],
           [text |-> "Default 'Anyone' sharing", tag |-> "cue_default", weight |-> 2],
           [text |-> "No obvious risk", tag |-> "cue_none", weight |-> -2] >>,
         max_select |-> 3],
       actions |-> [
         options |-> <<
           [text |-> "Remove public access / rotate link", tag |-> "remove_public", weight |-> 3],
           [text |-> "Notify affected team and document", tag |-> "log_and_notify", weight |-> 2],
           [text |-> "Leave as is but monitor", tag |-> "do_nothing", weight |-> -3],
           [text |-> "Review sharing defaults for the workspace", tag |-> "review_defaults", weight |-> 2] >>,
         max_select |-> 2],
       confidence |-> [range |-> <<0, 100>>, default |-> 65]],
     domain_map |-> <<<<"Data & Backups", Rat(6, 10)>>, <<"Governance", Rat(4, 10)>>>>,
     hint_fix |-> "Set workspace sharing defaults; require expiry and least-privilege links."]
  >>

DOMAINS == <<"Access & Accounts", "Devices", "Data & Backups", "Email & Awareness", "Response & Continuity", "Governance">>


TOTAL == Len(QUESTIONS)

SIM_TOTAL == Len(SCENARIOS)

-----------------------------------------------------------------------------
(* Scoring helpers.                                                        *)

\* traffic_light(pct): <<colour, label>>
traffic_light(pct) ==
    IF RGe(pct, R(75)) THEN <<"green", "Good">>
    ELSE IF RGe(pct, R(40)) THEN <<"amber", "Needs work">>
    ELSE <<"red", "At risk">>

\* The inner loop of score_selection: the weight of the first option whose
\* text is s (the loop breaks there), nothing when no option has that text.
first_match_weight(options, s) ==
    IF \E i \in 1..Len(options) : options[i].text = s
    THEN options[CHOOSE i \in 1..Len(options) :
                    /\ options[i].text = s
                    /\ \A j \in 1..(i - 1) : options[j].text # s].weight
    ELSE 0

\* the score overwritten instead of added to: the last selected text decides
raw_score_last_only(options, selected) ==
    IF selected = <<>> THEN 0
    ELSE first_match_weight(options, selected[Len(selected)])

\* the score adding the positive weights only
raw_score_positive_only(options, selected) ==
    SumSeq([i \in 1..Len(selected) |-> Max0(first_match_weight(options, selected[i]))])

\* "score actual": the sum over the selected texts
raw_score(options, selected) ==
    SumSeq([i \in 1..Len(selected) |-> first_match_weight(options, selected[i])])

\* max_pos with the slice [:max_select] forgotten: every positive weight counts
max_pos_unsliced(options, max_select) ==
    SumSeq(SortedDesc([i \in 1..Len(options) |-> Max0(options[i].weight)]))

\* "compute best possible": the max_select largest non-negative weights
max_pos(options, max_select) ==
    SumSeq(Prefix(SortedDesc([i \in 1..Len(options) |-> Max0(options[i].weight)]),
                  max_select))

\* score_selection with the final min(100.0, norm) forgotten
score_selection_unclamped(options, selected, max_select) ==
    LET score == raw_score(options, selected)
        best  == max_pos(options, max_select)
    IN  IF best <= 0
        THEN (IF score >= 0 THEN R(100) ELSE R(0))
        ELSE RMax(R(0), RMul(RDiv(R(Max0(score)), R(best)), R(100)))

\* score_selection with "score > 0" for "score >= 0" when nothing is positive
score_selection_strict(options, selected, max_select) ==
    LET score == raw_score(options, selected)
        best  == max_pos(options, max_select)
    IN  IF best <= 0
        THEN (IF score > 0 THEN R(100) ELSE R(0))
        ELSE RMax(R(0), RMin(R(100), RMul(RDiv(R(Max0(score)), R(best)), R(100))))

\* score_selection returning 100 whenever nothing is positive, risky picks or not
score_selection_degenerate_100(options, selected, max_select) ==
    LET score == raw_score(options, selected)
        best  == max_pos(options, max_select)
    IN  IF best <= 0
        THEN R(100)
        ELSE RMax(R(0), RMin(R(100), RMul(RDiv(R(Max0(score)), R(best)), R(100))))

score_selection(options, selected, max_select) ==
    LET score == raw_score(options, selected)
        best  == max_pos(options, max_select)
    IN  IF best <= 0
        THEN (IF score >= 0 THEN R(100) ELSE R(0))
        ELSE LET norm == RMul(RDiv(R(Max0(score)), R(best)), R(100))
             IN  RMax(R(0), RMin(R(100), norm))

\* calibration with "confidence > 70" for "confidence >= 70"
calibration_above_70(base, confidence) ==
    IF RLt(base, R(40)) /\ confidence > 70 THEN R(-5)
    ELSE IF RGe(base, R(60)) /\ confidence > 70 THEN R(5)
    ELSE R(0)

\* the calibration delta of evaluate_scenario
calibration(base, confidence) ==
    IF RLt(base, R(40)) /\ confidence >= 70 THEN R(-5)
    ELSE IF RGe(base, R(60)) /\ confidence >= 70 THEN R(5)
    ELSE R(0)

\* contrib with the calibration added to every domain's entry
contributions_calibrating_all(domain_map, base, calib) ==
    List([i \in 1..Len(domain_map) |->
            <<domain_map[i][1], RAdd(RMul(base, domain_map[i][2]), calib)>>])

\* contrib = {d: base * p ...}; contrib["Email & Awareness"] += calib
contributions(domain_map, base, calib) ==
    List([i \in 1..Len(domain_map) |->
            <<domain_map[i][1],
              IF domain_map[i][1] = "Email & Awareness"
              THEN RAdd(RMul(base, domain_map[i][2]), calib)
              ELSE RMul(base, domain_map[i][2])>>])

\* pick without the test of the weight: every selected option's text
pick_ignoring_weight(optlist, selected, good) ==
    LET kept == SelectSeq(optlist, LAMBDA o : o.text \in Range(selected))
    IN  List([i \in 1..Len(kept) |-> kept[i].text])

\* pick(optlist, selected, good)
pick(optlist, selected, good) ==
    LET kept == SelectSeq(optlist,
                    LAMBDA o : o.text \in Range(selected) /\ ((o.weight > 0) = good))
    IN  List([i \in 1..Len(kept) |-> kept[i].text])

\* the two missed positive cues shown in the debrief
missed_cues(cue_options, sel_cues) ==
    LET pos_cues == SelectSeq(cue_options, LAMBDA o : o.weight > 0)
        missed   == SelectSeq(pos_cues, LAMBDA o : o.text \notin Range(sel_cues))
    IN  Prefix(List([i \in 1..Len(missed) |-> missed[i].text]), 2)

\* the tags of the options matching txt, in option order
tags_of(options, txt) ==
    LET hit == SelectSeq(options, LAMBDA o : o.text = txt)
    IN  List([i \in 1..Len(hit) |-> hit[i].tag])

RECURSIVE selected_tags(_, _)
selected_tags(options, sel_actions) ==
    IF sel_actions = <<>> THEN <<>>
    ELSE tags_of(options, Head(sel_actions)) \o selected_tags(options, Tail(sel_actions))

evaluate_scenario(scn, sel_cues, sel_actions, confidence) ==
    LET cues_cfg   == scn.tasks.cues
        act_cfg    == scn.tasks.actions
        cues_score == score_selection(cues_cfg.options, sel_cues, cues_cfg.max_select)
        act_score  == score_selection(act_cfg.options, sel_actions, act_cfg.max_select)
        base       == RDiv(RAdd(cues_score, act_score), R(2))
        calib      == calibration(base, confidence)
    IN  [cues_score    |-> round1(cues_score),
         actions_score |-> round1(act_score),
         base          |-> round1(base),
         contrib       |-> contributions(scn.domain_map, base, calib),
         good_actions  |-> pick(act_cfg.options, sel_actions, TRUE),
         risky_actions |-> pick(act_cfg.options, sel_actions, FALSE),
         missed_cues   |-> missed_cues(cues_cfg.options, sel_cues),
         hint_fix      |-> scn.hint_fix,
         selected_tags |-> selected_tags(act_cfg.options, sel_actions)]

-----------------------------------------------------------------------------
(* Domain aggregation.                                                     *)

ScenarioIds == {SCENARIOS[i].id : i \in 1..SIM_TOTAL}

\* sim_answers.get(scn["id"]): the stored response, or None
None == [none |-> TRUE]

\* the response paired with a scenario by its position among the stored
\* responses, as zip(SCENARIOS, sim_answers.values()) would pair them
sim_get_by_position(sims, sid) ==
    LET i == CHOOSE k \in 1..SIM_TOTAL : SCENARIOS[k].id = sid
    IN  IF i <= Len(sims) THEN sims[i][2] ELSE None

sim_get(sims, sid) == DictGet(sims, sid, None)

\* ev of line 404 for every scenario of the catalog: what evaluate_scenario
\* returns for an answered scenario, None for an unanswered one (line 402)
evaluations(sims) ==
    List([i \in 1..SIM_TOTAL |->
            LET resp == sim_get(sims, SCENARIOS[i].id)
            IN  IF resp = None THEN None
                ELSE evaluate_scenario(SCENARIOS[i], resp.cues, resp.actions,
                                       resp.confidence)])

\* the loop of lines 395-400 up to scenario i: domain_max.get(d, 0.0).  The
\* maximum is added before the response is looked at, answered or not.
RECURSIVE domain_max_upto(_, _, _)
domain_max_upto(evs, d, i) ==
    IF i = 0 THEN R(0)
    ELSE LET before == domain_max_upto(evs, d, i - 1)
             dm     == SCENARIOS[i].domain_map
         IN  IF DictHas(dm, d)
             THEN RAdd(before, RMul(R(100), DictAt(dm, d)))
             ELSE before

\* domain_max.get(d, 0.0) after the loop
domain_max(evs, d) == domain_max_upto(evs, d, SIM_TOTAL)

\* earned with the max(0.0, val) forgotten
earned_unclamped(ev, d) ==
    IF DictHas(ev.contrib, d) THEN DictAt(ev.contrib, d) ELSE R(0)

\* what an answered scenario adds to domain_sum[d]: max(0.0, val)
earned(ev, d) ==
    IF DictHas(ev.contrib, d) THEN RMax(R(0), DictAt(ev.contrib, d)) ELSE R(0)

\* the loop of lines 395-406 up to scenario i: domain_sum[d]
RECURSIVE domain_sum_upto(_, _, _)
domain_sum_upto(evs, d, i) ==
    IF i = 0 THEN R(0)
    ELSE LET before == domain_sum_upto(evs, d, i - 1)
         IN  IF evs[i] = None THEN before
             ELSE RAdd(before, earned(evs[i], d))

\* pct of line 412, before rounding
domain_pct(evs, d) ==
    LET maxv == domain_max(evs, d)
    IN  IF RLt(R(0), maxv)
        THEN RMul(RDiv(domain_sum_upto(evs, d, SIM_TOTAL), maxv), R(100))
        ELSE R(0)

\* results[d] of line 414
domain_result(evs, d) ==
    LET pct == domain_pct(evs, d)
        tl  == traffic_light(pct)
    IN  [score |-> round(pct), colour |-> tl[1], label |-> tl[2]]

\* compute_domain_scores_from_sims leaving out the domains that earned nothing
compute_domain_scores_earning_only(sims) ==
    LET evs == evaluations(sims)
    IN  SelectSeq(List([i \in 1..Len(DOMAINS) |-> <<DOMAINS[i], domain_result(evs, DOMAINS[i])>>]),
                  LAMBDA e : domain_sum_upto(evs, e[1], Len(evs)) # R(0))

\* the dict {domain: {score, colour, label}}, one entry per domain of DOMAINS
compute_domain_scores_from_sims(sims) ==
    LET evs == evaluations(sims)
    IN  List([i \in 1..Len(DOMAINS) |-> <<DOMAINS[i], domain_result(evs, DOMAINS[i])>>])

\* overall_score keeping only the scores that are truthy, so dropping zeros
overall_score_truthy(domain_scores) ==
    LET vals == SelectSeq(List([i \in 1..Len(domain_scores) |-> domain_scores[i][2].score]),
                          LAMBDA v : v # 0)
    IN  IF vals = <<>>
        THEN [score |-> 0, colour |-> "red", label |-> "At risk"]
        ELSE LET avg == Rat(SumSeq(vals), Len(vals))
                 tl  == traffic_light(avg)
             IN  [score |-> round(avg), colour |-> tl[1], label |-> tl[2]]

overall_score(domain_scores) ==
    LET vals == List([i \in 1..Len(domain_scores) |-> domain_scores[i][2].score])
    IN  IF vals = <<>>
        THEN [score |-> 0, colour |-> "red", label |-> "At risk"]
        ELSE LET avg == Rat(SumSeq(vals), Len(vals))
                 tl  == traffic_light(avg)
             IN  [score |-> round(avg), colour |-> tl[1], label |-> tl[2]]

-----------------------------------------------------------------------------
(* Strengths and fixes.                                                    *)

\* tags of the action options whose text is among the selected actions
action_tags(scn, resp) ==
    {o.tag : o \in {x \in Range(scn.tasks.actions.options) :
                        x.text \in Range(resp.actions)}}

scenario_strengths(tags) ==
    (IF "oob_verify" \in tags
     THEN {"Uses out-of-band verification before money/account changes."} ELSE {})
    \cup (IF "hold_and_ticket" \in tags \/ "log_and_notify" \in tags
     THEN {"Logs incidents and involves the right team quickly."} ELSE {})
    \cup (IF "nav_direct" \in tags \/ "report_button" \in tags
     THEN {"Avoids risky links and uses the report-phish route."} ELSE {})
    \cup (IF "remote_wipe" \in tags \/ "revoke_tokens" \in tags
     THEN {"Can contain device loss (remote wipe / token revocation)."} ELSE {})
    \cup (IF "remove_public" \in tags \/ "review_defaults" \in tags
     THEN {"Manages cloud sharing (remove public access, sensible defaults)."} ELSE {})

risky_map == <<
    <<"click_link", "Don't verify via links in alerts; navigate directly.">>,
    <<"reply_email", "Don't confirm via the same thread; attackers control replies.">>,
    <<"comply_authority", "Don't bypass approvals due to urgency/authority.">>,
    <<"wait_and_see", "Act immediately on lost devices (lock/wipe, revoke).">>,
    <<"do_nothing", "Remove public access; rotate links and review defaults.">> >>

\* the fixes of a scenario, two-channel verification asked of the invoice
\* scenario only
scenario_fixes_invoice_only(sid, tags) ==
    {DictAt(risky_map, t) : t \in {x \in tags : DictHas(risky_map, x)}}
    \cup (IF "oob_verify" \notin tags /\ sid \in {"s1_invoice"}
     THEN {"Introduce two-channel verification for payments and account changes."}
     ELSE {})
    \cup (IF sid = "s4_laptop" /\ ({"remote_wipe", "revoke_tokens"} \cap tags) = {}
     THEN {"Ensure MDM can remote-lock/wipe and revoke sessions quickly."} ELSE {})
    \cup (IF sid = "s3_reset" /\ ({"nav_direct", "report_button"} \cap tags) = {}
     THEN {"Enable an easy 'report phishing' button and teach 'navigate, don't click'."}
     ELSE {})
    \cup (IF sid = "s5_share" /\ "remove_public" \notin tags
     THEN {"Require expiring, least-privilege cloud links; disable 'Anyone with link'."}
     ELSE {})

scenario_fixes(sid, tags) ==
    {DictAt(risky_map, t) : t \in {x \in tags : DictHas(risky_map, x)}}
    \cup (IF "oob_verify" \notin tags /\ sid \in {"s1_invoice", "s2_ceo"}
     THEN {"Introduce two-channel verification for payments and account changes."}
     ELSE {})
    \cup (IF sid = "s4_laptop" /\ ({"remote_wipe", "revoke_tokens"} \cap tags) = {}
     THEN {"Ensure MDM can remote-lock/wipe and revoke sessions quickly."} ELSE {})
    \cup (IF sid = "s3_reset" /\ ({"nav_direct", "report_button"} \cap tags) = {}
     THEN {"Enable an easy 'report phishing' button and teach 'navigate, don't click'."}
     ELSE {})
    \cup (IF sid = "s5_share" /\ "remove_public" \notin tags
     THEN {"Require expiring, least-privilege cloud links; disable 'Anyone with link'."}
     ELSE {})

\* Python's order of the strings the two sets can hold: sorted() lists a
\* set's members in this order
STRING_ORDER == <<
    "Act immediately on lost devices (lock/wipe, revoke).",
    "Avoids risky links and uses the report-phish route.",
    "Can contain device loss (remote wipe / token revocation).",
    "Don't bypass approvals due to urgency/authority.",
    "Don't confirm via the same thread; attackers control replies.",
    "Don't verify via links in alerts; navigate directly.",
    "Enable an easy 'report phishing' button and teach 'navigate, don't click'.",
    "Ensure MDM can remote-lock/wipe and revoke sessions quickly.",
    "Introduce two-channel verification for payments and account changes.",
    "Logs incidents and involves the right team quickly.",
    "Manages cloud sharing (remove public access, sensible defaults).",
    "Remove public access; rotate links and review defaults.",
    "Require expiring, least-privilege cloud links; disable 'Anyone with link'.",
    "Uses out-of-band verification before money/account changes." >>

\* sorted(list(S))
sorted(S) == SelectSeq(STRING_ORDER, LAMBDA x : x \in S)

answered(sims) == {i \in 1..SIM_TOTAL : sim_get(sims, SCENARIOS[i].id) # None}

\* <<strengths, fixes>>
strengths_and_fixes(sims) ==
    LET strengths == UNION {scenario_strengths(
                               action_tags(SCENARIOS[i], sim_get(sims, SCENARIOS[i].id))) :
                            i \in answered(sims)}
        fixes     == UNION {scenario_fixes(SCENARIOS[i].id,
                               action_tags(SCENARIOS[i], sim_get(sims, SCENARIOS[i].id))) :
                            i \in answered(sims)}
    IN  <<Prefix(sorted(strengths), 8), Prefix(sorted(fixes), 10)>>

-----------------------------------------------------------------------------
(* The session of streamlit_app.py.                                        *)
(* A text typed into a text_input is a sequence of characters, so that     *)
(* strip() has something to do; the empty string "" is <<>>.               *)

\* str.strip() on a sequence of characters
RECURSIVE lstrip(_)
lstrip(s) == IF s # <<>> /\ Head(s) = " " THEN lstrip(Tail(s)) ELSE s

RECURSIVE rstrip(_)
rstrip(s) ==
    IF s # <<>> /\ s[Len(s)] = " " THEN rstrip(SubSeq(s, 1, Len(s) - 1)) ELSE s

strip(s) == rstrip(lstrip(s))

\* the profile ss_init builds
EmptyProfile ==
    [contact_name |-> <<>>, business_name |-> <<>>, industry |-> <<>>,
     years |-> "", headcount |-> "", turnover |-> "", work_mode |-> ""]

\* ss_init on a session holding no key: every key is set to its default
ss_init ==
    /\ stage' = "intake"
    /\ profile' = EmptyProfile
    /\ answers' = <<>>
    /\ idx' = 0
    /\ sim_idx' = 0
    /\ sim_answers' = <<>>

\* reset_all deleting every key but the profile
reset_all_keeping_profile ==
    /\ stage' = "intake"
    /\ profile' = profile
    /\ answers' = <<>>
    /\ idx' = 0
    /\ sim_idx' = 0
    /\ sim_answers' = <<>>

\* reset_all: the six keys are deleted, then ss_init sets them again
reset_all == ss_init

\* What the user enters on the intake page.
TextInputs == {<<>>, <<" ", "a", " ">>}

YearsChoices == {"<1 year", "1-3 years", "3-10 years", "10+ years"}

HeadcountChoices == {"Just me", "2-5", "6-20", "21-100", "100+"}

TurnoverChoices == {"<EUR100k", "EUR100k-500k", "EUR500k-2M", ">EUR2M"}

WorkModeChoices == {"Local & in-person", "Online/remote", "A mix of both"}

\* The answer the stage-1 page writes for question QUESTIONS[i + 1] when it
\* renders with no widget touched: the stored answer when it is one of the
\* choices, else the first choice (radio), the stored list filtered in choice
\* order (checkboxes).
qa_default(ans, i) ==
    LET q == QUESTIONS[i + 1]
    IN  IF q.type = "choice"
        THEN (IF DictHas(ans, q.id) /\ DictAt(ans, q.id) \in Range(q.choices)
              THEN DictAt(ans, q.id) ELSE q.choices[1])
        ELSE LET sel == IF DictHas(ans, q.id) THEN Range(DictAt(ans, q.id)) ELSE {}
             IN  SelectSeq(q.choices, LAMBDA opt : opt \in sel)

\* lines 546-564: the page of question i writes the widget's value
qa_render(ans, i) == DictSet(ans, QUESTIONS[i + 1].id, qa_default(ans, i))

\* The values the user sets a stage-1 widget to.
QaInputs(q) ==
    IF q.id = "data_types" THEN Range(q.choices)
    ELSE IF q.id = "tools_regular" THEN {<<>>, <<"Email">>}
    ELSE {q.choices[1]}

\* The responses the user submits for scenario SCENARIOS[i]: selections in
\* the order picked, each within max_select, and a confidence of the slider.
Response(cues, actions, confidence) ==
    [cues |-> cues, actions |-> actions, confidence |-> confidence]

OptionTexts(cfg) == List([k \in 1..Len(cfg.options) |-> cfg.options[k].text])

\* the best picks of a task: the positive options, heaviest first, cut to
\* max_select
top_picks(cfg) ==
    LET heavy == SelectSeq(cfg.options, LAMBDA o : o.weight >= 3)
        light == SelectSeq(cfg.options, LAMBDA o : o.weight > 0 /\ o.weight < 3)
        best  == Prefix(heavy \o light, cfg.max_select)
    IN  List([k \in 1..Len(best) |-> best[k].text])

\* a risky pick of a task: its first option of negative weight
risky_pick(cfg) ==
    LET neg == SelectSeq(cfg.options, LAMBDA o : o.weight < 0)
    IN  <<neg[1].text>>

SimInputs(i) ==
    LET cues    == SCENARIOS[i].tasks.cues
        actions == SCENARIOS[i].tasks.actions
        c       == OptionTexts(cues)
        a       == OptionTexts(actions)
    IN  IF SCENARIOS[i].id \in {"s1_invoice", "s3_reset", "s4_laptop"}
        THEN { Response(top_picks(cues), top_picks(actions), 80),
               Response(risky_pick(cues), risky_pick(actions), 80) }
        ELSE IF SCENARIOS[i].id = "s2_ceo"
        THEN { Response(<<c[1], c[2]>>, <<a[1]>>, 65),
               Response(<<c[1]>>, top_picks(actions), 90) }
        ELSE { Response(<<c[2], c[1]>>, top_picks(actions), 65),
               Response(<<>>, <<>>, 65) }

-----------------------------------------------------------------------------
(* One script run per user event.  A handler that ends in st.rerun() is    *)
(* followed at once by the run that renders the new page, so its action    *)
(* includes what that page writes when it renders.                         *)

Idle == pc = "idle" /\ UNCHANGED call /\ UNCHANGED wizard

Init ==
    /\ stage = "intake"
    /\ profile = EmptyProfile
    /\ answers = <<>>
    /\ idx = 0
    /\ sim_idx = 0
    /\ sim_answers = <<>>
    /\ pc = "idle"
    /\ args = <<>>
    /\ result = <<>>
    /\ NoWizard

\* the sidebar's Restart button, on every page (lines 484-486)
Restart ==
    /\ Idle
    /\ reset_all

\* "Start Initial Assessment" on the intake page (lines 517-529)
StartInitial ==
    /\ Idle
    /\ stage = "intake"
    /\ \E contact \in TextInputs, bname \in {<<"b">>}, industry \in {<<>>},
          years \in {"<1 year"}, headcount \in {"Just me"},
          turnover \in {"<EUR100k"}, work_mode \in {"Local & in-person"} :
          profile' = [contact_name |-> strip(contact),
                      business_name |-> strip(bname),
                      industry |-> strip(industry),
                      years |-> years, headcount |-> headcount,
                      turnover |-> turnover, work_mode |-> work_mode]
    /\ stage' = "qa"
    /\ idx' = 0
    /\ answers' = qa_render(answers, 0)
    /\ UNCHANGED <<sim_idx, sim_answers>>

\* the user sets the widget of the displayed question (lines 546-564)
QaAnswer ==
    /\ Idle
    /\ stage = "qa"
    /\ \E v \in QaInputs(QUESTIONS[idx + 1]) :
          answers' = DictSet(answers, QUESTIONS[idx + 1].id, v)
    /\ UNCHANGED <<stage, profile, idx, sim_idx, sim_answers>>

\* "Back" on a question page, disabled on the first (lines 570-571)
QaBack ==
    /\ Idle
    /\ stage = "qa"
    /\ idx # 0
    /\ idx' = (IF idx - 1 > 0 THEN idx - 1 ELSE 0)
    /\ answers' = qa_render(qa_render(answers, idx), idx')
    /\ UNCHANGED <<stage, profile, sim_idx, sim_answers>>

\* the last question page going straight on to the simulations
qa_forward_past_summary ==
    LET next_idx == idx + 1
        written  == qa_render(answers, idx)
    IN  IF next_idx >= TOTAL
        THEN /\ stage' = "sim_qa"
             /\ idx' = idx
             /\ answers' = written
        ELSE /\ stage' = stage
             /\ idx' = next_idx
             /\ answers' = qa_render(written, next_idx)

\* lines 574-577 and 580-583: the two buttons run the same statements
qa_forward ==
    LET next_idx == idx + 1
        written  == qa_render(answers, idx)
    IN  IF next_idx >= TOTAL
        THEN /\ stage' = "done_initial"
             /\ idx' = idx
             /\ answers' = written
        ELSE /\ stage' = stage
             /\ idx' = next_idx
             /\ answers' = qa_render(written, next_idx)

\* "Skip" on a question page dropping the answer of the question on screen
QaSkip_dropping_answer ==
    /\ Idle
    /\ stage = "qa"
    /\ LET next_idx == idx + 1
           dropped  == DictPop(answers, QUESTIONS[idx + 1].id)
       IN  IF next_idx >= TOTAL
           THEN /\ stage' = "done_initial"
                /\ idx' = idx
                /\ answers' = dropped
           ELSE /\ stage' = stage
                /\ idx' = next_idx
                /\ answers' = qa_render(dropped, next_idx)
    /\ UNCHANGED <<profile, sim_idx, sim_answers>>

\* "Skip" on a question page (lines 573-577)
QaSkip ==
    /\ Idle
    /\ stage = "qa"
    /\ qa_forward
    /\ UNCHANGED <<profile, sim_idx, sim_answers>>

\* "Save & Next" on a question page (lines 579-583)
QaSaveNext ==
    /\ Idle
    /\ stage = "qa"
    /\ qa_forward
    /\ UNCHANGED <<profile, sim_idx, sim_answers>>

\* "Continue to Simulations" on the summary page (lines 630-633)
ContinueToSimulations ==
    /\ Idle
    /\ stage = "done_initial"
    /\ stage' = "sim_qa"
    /\ sim_idx' = 0
    /\ UNCHANGED <<profile, answers, idx, sim_answers>>

\* where a scenario page goes next, the results coming one page late
sim_forward_one_late ==
    LET nxt == sim_idx + 1
    IN  IF nxt > SIM_TOTAL
        THEN stage' = "sim_results" /\ sim_idx' = sim_idx
        ELSE stage' = stage /\ sim_idx' = nxt

\* where a scenario page goes next, the last page staying on screen
sim_forward_staying ==
    LET nxt == sim_idx + 1
    IN  IF nxt >= SIM_TOTAL
        THEN stage' = stage /\ sim_idx' = sim_idx
        ELSE stage' = stage /\ sim_idx' = nxt

\* lines 693-695 and 704-706: where a scenario page goes next
sim_forward ==
    LET nxt == sim_idx + 1
    IN  IF nxt >= SIM_TOTAL
        THEN stage' = "sim_results" /\ sim_idx' = sim_idx
        ELSE stage' = stage /\ sim_idx' = nxt

\* "Back" on a scenario page, disabled on the first (lines 688-689)
SimBack ==
    /\ Idle
    /\ stage = "sim_qa"
    /\ sim_idx # 0
    /\ sim_idx' = (IF sim_idx - 1 > 0 THEN sim_idx - 1 ELSE 0)
    /\ UNCHANGED <<stage, profile, answers, idx, sim_answers>>

\* "Skip" on a scenario page leaving the stored response in place
SimSkip_keeping_response ==
    /\ Idle
    /\ stage = "sim_qa"
    /\ sim_answers' = sim_answers
    /\ sim_forward
    /\ UNCHANGED <<profile, answers, idx>>

\* "Skip" on a scenario page (lines 691-696)
SimSkip ==
    /\ Idle
    /\ stage = "sim_qa"
    /\ sim_answers' = DictPop(sim_answers, SCENARIOS[sim_idx + 1].id)
    /\ sim_forward
    /\ UNCHANGED <<profile, answers, idx>>

\* the stored responses holding the saved response and nothing else
sim_save_alone(sims, i, resp) == << <<SCENARIOS[i + 1].id, resp>> >>

\* lines 699-703: the response on screen is stored under the scenario's id
sim_save(sims, i, resp) == DictSet(sims, SCENARIOS[i + 1].id, resp)

\* "Save & Next" on a scenario page (lines 698-707)
SimSaveNext ==
    /\ Idle
    /\ stage = "sim_qa"
    /\ \E resp \in SimInputs(sim_idx + 1) :
          sim_answers' = sim_save(sim_answers, sim_idx, resp)
    /\ sim_forward
    /\ UNCHANGED <<profile, answers, idx>>

\* "Review scenarios" on the results page (lines 778-779)
ReviewScenarios ==
    /\ Idle
    /\ stage = "sim_results"
    /\ stage' = "sim_qa"
    /\ sim_idx' = 0
    /\ UNCHANGED <<profile, answers, idx, sim_answers>>

\* "Restart whole assessment" on the results page (lines 781-782)
RestartWhole ==
    /\ Idle
    /\ stage = "sim_results"
    /\ reset_all

Next ==
    \/ Restart
    \/ StartInitial
    \/ QaAnswer
    \/ QaBack
    \/ QaSkip
    \/ QaSaveNext
    \/ ContinueToSimulations
    \/ SimBack
    \/ SimSkip
    \/ SimSaveNext
    \/ ReviewScenarios
    \/ RestartWhole

Spec == Init /\ [][Next]_vars

-----------------------------------------------------------------------------
(* The export payload of the results page (lines 717-719 and 759-767), a   *)
(* dict in the order the code writes its keys.                             *)

\* export_payload leaving out a key whose list is empty
export_payload_without_empty ==
    LET scores  == compute_domain_scores_from_sims(sim_answers)
        overall == overall_score(scores)
        sf      == strengths_and_fixes(sim_answers)
    IN  SelectSeq(<< <<"profile", profile>>,
                     <<"initial_answers", answers>>,
                     <<"sim_answers", sim_answers>>,
                     <<"domain_scores", scores>>,
                     <<"overall", overall>>,
                     <<"strengths", sf[1]>>,
                     <<"fixes", sf[2]>> >>,
                  LAMBDA e : e[1] \notin {"strengths", "fixes"} \/ e[2] # <<>>)

export_payload ==
    LET scores  == compute_domain_scores_from_sims(sim_answers)
        overall == overall_score(scores)
        sf      == strengths_and_fixes(sim_answers)
    IN  << <<"profile", profile>>,
           <<"initial_answers", answers>>,
           <<"sim_answers", sim_answers>>,
           <<"domain_scores", scores>>,
           <<"overall", overall>>,
           <<"strengths", sf[1]>>,
           <<"fixes", sf[2]>> >>

-----------------------------------------------------------------------------
(* Direct calls of the scoring helpers on bounded inputs.  The session     *)
(* stays as ss_init built it.                                              *)

FreshSession ==
    /\ stage = "intake"
    /\ profile = EmptyProfile
    /\ answers = <<>>
    /\ idx = 0
    /\ sim_idx = 0
    /\ sim_answers = <<>>
    /\ NoWizard

\* the sequences over S of length at most n that repeat no element
InjSeqs(S, n) ==
    {s \in UNION {[1..k -> S] : k \in 0..n} :
        \A i, j \in 1..Len(s) : i # j => s[i] # s[j]}

MaxSelected == 3

MaxSelectCap == 3

GenTexts == {"a", "b", "c"}

GenWeights == {-3, -2, 0, 1, 2, 3}

\* option lists: distinct texts, any weights, in any order
GenOptions ==
    {[i \in 1..Len(ts) |-> [text |-> ts[i], tag |-> ts[i], weight |-> ws[i]]] :
        <<ts, ws>> \in {p \in InjSeqs(GenTexts, Cardinality(GenTexts))
                              \X UNION {[1..k -> GenWeights] : k \in 0..Cardinality(GenTexts)} :
                           Len(p[1]) = Len(p[2])}}

\* selections: distinct texts, one of them ("x") the text of no option
GenSelected == InjSeqs(GenTexts \cup {"x"}, MaxSelected)

InitScore ==
    /\ FreshSession
    /\ pc = "call"
    /\ args \in [options : GenOptions, selected : GenSelected, max_select : 1..MaxSelectCap]
    /\ result = <<>>

\* score_selection(options, selected, max_select) returns
ScoreCall ==
    /\ pc = "call"
    /\ result' = score_selection(args.options, args.selected, args.max_select)
    /\ pc' = "done"
    /\ UNCHANGED <<session, wizard, args>>

NextScore == ScoreCall

SpecScore == InitScore /\ [][NextScore]_vars

\* the confidences tried: the ends of the slider, both sides of 70 and a
\* confident 80
Confidences == {0, 69, 70, 80, 100}

InitEval ==
    /\ FreshSession
    /\ pc = "call"
    /\ \E i \in 1..SIM_TOTAL :
         \E c \in InjSeqs(Range(OptionTexts(SCENARIOS[i].tasks.cues)),
                          SCENARIOS[i].tasks.cues.max_select),
            a \in InjSeqs(Range(OptionTexts(SCENARIOS[i].tasks.actions)),
                          SCENARIOS[i].tasks.actions.max_select),
            k \in Confidences :
            args = [scn |-> i, cues |-> c, actions |-> a, confidence |-> k]
    /\ result = <<>>

\* evaluate_scenario(scn, sel_cues, sel_actions, confidence) returns
EvalCall ==
    /\ pc = "call"
    /\ result' = evaluate_scenario(SCENARIOS[args.scn], args.cues, args.actions,
                                   args.confidence)
    /\ pc' = "done"
    /\ UNCHANGED <<session, wizard, args>>

NextEval == EvalCall

SpecEval == InitEval /\ [][NextEval]_vars

-----------------------------------------------------------------------------
(* Properties of score_selection, checked under SpecScore.                 *)

HasPositive(options) == \E i \in 1..Len(options) : options[i].weight > 0

PositiveCount(options) == Cardinality({i \in 1..Len(options) : options[i].weight > 0})

\* the options whose text is selected
Picked(options, selected) == {i \in 1..Len(options) : options[i].text \in Range(selected)}

\* C1: for every option list, every selection and every max_select >= 1,
\* score_selection returns a value between 0 and 100 inclusive.
C1_ScoreInRange ==
    pc = "done" => RLe(R(0), result) /\ RLe(result, R(100))

\* C1's case: the picks weigh more than the best max_select picks, and the
\* result is cut to 100.
C1_Witness ==
    /\ pc = "done"
    /\ max_pos(args.options, args.max_select) > 0
    /\ raw_score(args.options, args.selected) > max_pos(args.options, args.max_select)
    /\ result = R(100)

\* the selection is exactly max_select positive options, none lighter than
\* an option left out
IsTopSelection(options, selected, max_select) ==
    /\ Len(selected) = max_select
    /\ Range(selected) \subseteq {options[i].text : i \in 1..Len(options)}
    /\ \A i \in Picked(options, selected) : options[i].weight > 0
    /\ \A i \in Picked(options, selected) :
          \A j \in (1..Len(options)) \ Picked(options, selected) :
             options[j].weight <= options[i].weight

\* C6: with at least max_select options of positive weight, selecting exactly
\* the max_select options of highest positive weight scores exactly 100.
C6_TopSelectionScores100 ==
    (/\ pc = "done"
     /\ PositiveCount(args.options) >= args.max_select
     /\ IsTopSelection(args.options, args.selected, args.max_select))
    => result = R(100)

\* C6's case: a top selection that leaves a positive option out.
C6_Witness ==
    /\ pc = "done"
    /\ PositiveCount(args.options) > args.max_select
    /\ IsTopSelection(args.options, args.selected, args.max_select)
    /\ result = R(100)

\* C7: an empty selection scores 0 when some option has positive weight and
\* 100 when none has.
C7_EmptySelection ==
    (pc = "done" /\ args.selected = <<>>)
    => /\ HasPositive(args.options) => result = R(0)
       /\ ~HasPositive(args.options) => result = R(100)

\* C7's case: nothing selected from a list of risky options only.
C7_Witness ==
    /\ pc = "done"
    /\ args.selected = <<>>
    /\ args.options # <<>>
    /\ \A i \in 1..Len(args.options) : args.options[i].weight < 0
    /\ result = R(100)

\* the selection is not empty and every selected text is an option of
\* negative weight
OnlyNegativePicks(options, selected) ==
    /\ selected # <<>>
    /\ \A k \in 1..Len(selected) :
          \E i \in 1..Len(options) :
             options[i].text = selected[k] /\ options[i].weight < 0

\* C8: a non-empty selection of negative-weight options only scores exactly
\* 0, whether or not the list holds positive options too.
C8_OnlyNegativeScoresZero ==
    (pc = "done" /\ OnlyNegativePicks(args.options, args.selected))
    => result = R(0)

\* C8's case: risky picks only, from a list that also holds a positive option.
C8_Witness ==
    /\ pc = "done"
    /\ OnlyNegativePicks(args.options, args.selected)
    /\ HasPositive(args.options)
    /\ result = R(0)

-----------------------------------------------------------------------------
(* Properties of evaluate_scenario, checked under SpecEval.                *)

Awareness == "Email & Awareness"

\* base of line 349, before any rounding
ExactBase ==
    LET scn == SCENARIOS[args.scn]
    IN  RDiv(RAdd(score_selection(scn.tasks.cues.options, args.cues,
                                  scn.tasks.cues.max_select),
                  score_selection(scn.tasks.actions.options, args.actions,
                                  scn.tasks.actions.max_select)),
             R(2))

\* base * proportion for the awareness domain
PlainAwareness == RMul(ExactBase, DictAt(SCENARIOS[args.scn].domain_map, Awareness))

\* C3: the awareness contribution (when the scenario maps that domain) is
\* base * proportion - 5 when base < 40 and confidence >= 70, base *
\* proportion + 5 when base >= 60 and confidence >= 70, and base * proportion
\* in every other case.
C3_Calibration ==
    (pc = "done" /\ DictHas(SCENARIOS[args.scn].domain_map, Awareness))
    => /\ DictHas(result.contrib, Awareness)
       /\ LET got == DictAt(result.contrib, Awareness)
          IN  IF RLt(ExactBase, R(40)) /\ args.confidence >= 70
              THEN got = RSub(PlainAwareness, R(5))
              ELSE IF RGe(ExactBase, R(60)) /\ args.confidence >= 70
              THEN got = RAdd(PlainAwareness, R(5))
              ELSE got = PlainAwareness

\* C3's case: a poor base at a confidence of exactly 70, five taken off.
C3_Witness ==
    /\ pc = "done"
    /\ DictHas(SCENARIOS[args.scn].domain_map, Awareness)
    /\ RLt(ExactBase, R(40))
    /\ args.confidence = 70
    /\ DictAt(result.contrib, Awareness) = RSub(PlainAwareness, R(5))

-----------------------------------------------------------------------------
(* Properties of the results page, checked under Spec.                     *)

Scores == compute_domain_scores_from_sims(sim_answers)

\* C2: every domain's reported percent lies in 0..100; the +5 calibration
\* never lifts it above 100.
C2_PercentInRange ==
    stage = "sim_results"
    => \A i \in 1..Len(Scores) : Scores[i][2].score \in 0..100

\* the place of a scenario id in SCENARIOS
ScenarioIndex(sid) == CHOOSE k \in 1..SIM_TOTAL : SCENARIOS[k].id = sid

\* the same responses stored in catalog order, as answering the scenarios
\* first to last stores them
InCatalogOrder(sims) ==
    LET ids == SelectSeq([k \in 1..SIM_TOTAL |-> SCENARIOS[k].id],
                         LAMBDA sid : DictHas(sims, sid))
    IN  List([k \in 1..Len(ids) |-> <<ids[k], DictAt(sims, ids[k])>>])

\* C4: the domain scores depend on the stored responses only, not on the
\* order in which they were stored: whatever the insertion order, the
\* scores are those of the same responses stored in catalog order.
C4_OrderIndependent ==
    stage = "sim_results"
    => compute_domain_scores_from_sims(InCatalogOrder(sim_answers)) = Scores

\* C4's case: results shown for responses stored out of catalog order.
C4_Witness ==
    /\ stage = "sim_results"
    /\ \E i, j \in 1..Len(sim_answers) :
          /\ i < j
          /\ ScenarioIndex(sim_answers[i][1]) > ScenarioIndex(sim_answers[j][1])

\* A domain's maximum when nothing is answered.
unanswered_max == List([i \in 1..Len(DOMAINS) |-> domain_max(evaluations(<<>>), DOMAINS[i])])

TierOf(percent) ==
    IF percent >= 75 THEN "Good"
    ELSE IF percent >= 40 THEN "Needs work"
    ELSE "At risk"

\* C9: each domain's label is the tier of its reported (rounded) percent:
\* Good from 75, Needs work from 40 to 74, At risk below 40.
C9_LabelMatchesPercent ==
    stage = "sim_results"
    => \A i \in 1..Len(Scores) : Scores[i][2].label = TierOf(Scores[i][2].score)

\* C10: on the results page the export payload has the keys profile,
\* initial_answers, scenario_answers, domain_scores, overall, strengths and
\* fixes.
C10_ExportKeys ==
    stage = "sim_results"
    => DictKeys(export_payload) =
          {"profile", "initial_answers", "scenario_answers", "domain_scores",
           "overall", "strengths", "fixes"}

\* C10 as amended: the payload has exactly the keys profile, initial_answers,
\* sim_answers, domain_scores, overall, strengths and fixes, each once,
\* whether or not any scenario was answered.
C10_ExportKeysAmended ==
    stage = "sim_results"
    => /\ DictKeys(export_payload) =
             {"profile", "initial_answers", "sim_answers", "domain_scores",
              "overall", "strengths", "fixes"}
       /\ Len(export_payload) = 7

\* C10's case: the results page with no scenario answered.
C10_Witness ==
    /\ stage = "sim_results"
    /\ sim_answers = <<>>
    /\ DictHas(export_payload, "sim_answers")

-----------------------------------------------------------------------------
(* The supplier invoice example, checked under SpecEval.                   *)

Continuity == "Response & Continuity"

\* the call evaluates s1_invoice with two of its three positive cues (in
\* either order), the call-the-supplier action alone and confidence 80
InvoiceExample ==
    /\ SCENARIOS[args.scn].id = "s1_invoice"
    /\ Len(args.cues) = 2
    /\ Range(args.cues) = {"New bank details + urgency",
                           "Reply-To differs from display name"}
    /\ args.actions = <<"Call supplier via number in finance contacts">>
    /\ args.confidence = 80

\* C11: for the invoice example the cues score is 66.7 (raw 4 of best 6),
\* the actions score 60 (raw 3 of best 5) and the base 63.3; the +5 goes to
\* Email & Awareness only and Response & Continuity gets base * 0.5.
C11_InvoiceExample ==
    (pc = "done" /\ InvoiceExample)
    => LET t == SCENARIOS[args.scn].tasks
       IN  /\ raw_score(t.cues.options, args.cues) = 4
           /\ max_pos(t.cues.options, t.cues.max_select) = 6
           /\ result.cues_score = Rat(667, 10)
           /\ raw_score(t.actions.options, args.actions) = 3
           /\ max_pos(t.actions.options, t.actions.max_select) = 5
           /\ result.actions_score = R(60)
           /\ result.base = Rat(633, 10)
           /\ DictKeys(result.contrib) = {Awareness, Continuity}
           /\ DictAt(result.contrib, Awareness) = RAdd(RMul(ExactBase, Rat(1, 2)), R(5))
           /\ DictAt(result.contrib, Continuity) = RMul(ExactBase, Rat(1, 2))

\* C11's case: the example evaluated, with the cues picked in reverse order.
C11_Witness ==
    /\ pc = "done"
    /\ InvoiceExample
    /\ args.cues[1] = "Reply-To differs from display name"
    /\ result.base = Rat(633, 10)

-----------------------------------------------------------------------------
(* The results page rendered for a bounded set of stored responses: lines  *)
(* 717-719 compute the scores, the overall score and the two lists, lines  *)
(* 771-772 the rows of the CSV export.                                     *)

\* the answers the question pages write when every page is passed untouched
RECURSIVE answers_upto(_)
answers_upto(k) == IF k = 0 THEN <<>> ELSE qa_render(answers_upto(k - 1), k - 1)

\* stored responses: each scenario of ids left out or answered with one of
\* its inputs, stored in the order of ids
RECURSIVE GenSimsOver(_)
GenSimsOver(ids) ==
    IF ids = <<>> THEN {<<>>}
    ELSE LET rest == GenSimsOver(Tail(ids))
         IN  rest \cup { << <<SCENARIOS[Head(ids)].id, r>> >> \o s :
                            r \in SimInputs(Head(ids)), s \in rest }

\* the stored responses tried: in catalog order and in the reverse order
GenSims ==
    GenSimsOver([k \in 1..SIM_TOTAL |-> k])
        \cup GenSimsOver([k \in 1..SIM_TOTAL |-> SIM_TOTAL + 1 - k])

\* every selection of actions the multiselect of scenario SCENARIOS[i] lets
\* through (at most max_select options, here in catalog order), with the
\* best cues
ActionInputs(i) ==
    LET cues    == SCENARIOS[i].tasks.cues
        actions == SCENARIOS[i].tasks.actions
    IN  { Response(top_picks(cues),
                   SelectSeq(OptionTexts(actions), LAMBDA t : t \in picked), 80) :
            picked \in {S \in SUBSET Range(OptionTexts(actions)) :
                           Cardinality(S) <= actions.max_select} }

\* stored responses in catalog order in which the two payment scenarios are
\* left out or answered with any selection of actions
RECURSIVE GenFraudSimsOver(_)
GenFraudSimsOver(ids) ==
    IF ids = <<>> THEN {<<>>}
    ELSE LET rest == GenFraudSimsOver(Tail(ids))
             ins  == IF SCENARIOS[Head(ids)].id \in {"s1_invoice", "s2_ceo"}
                     THEN ActionInputs(Head(ids)) ELSE SimInputs(Head(ids))
         IN  rest \cup { << <<SCENARIOS[Head(ids)].id, r>> >> \o s : r \in ins, s \in rest }

GenFraudSims == GenFraudSimsOver([k \in 1..SIM_TOTAL |-> k])

\* the rows of the CSV export (line 771)
csv_rows(scores) ==
    List([i \in 1..Len(scores) |->
            [Domain |-> scores[i][1], Score |-> scores[i][2].score,
             Label |-> scores[i][2].label]])

InitResults ==
    /\ stage = "sim_results"
    /\ profile = [EmptyProfile EXCEPT !.years = "<1 year", !.headcount = "Just me",
                                      !.turnover = "<EUR100k",
                                      !.work_mode = "Local & in-person"]
    /\ answers = answers_upto(TOTAL)
    /\ idx = TOTAL - 1
    /\ sim_idx = SIM_TOTAL - 1
    /\ sim_answers \in GenSims \cup GenFraudSims
    /\ pc = "call"
    /\ args = <<>>
    /\ result = <<>>
    /\ NoWizard

\* the results page renders
ResultsRender ==
    /\ pc = "call"
    /\ LET scores == compute_domain_scores_from_sims(sim_answers)
           sf     == strengths_and_fixes(sim_answers)
       IN  result' = [scores |-> scores, overall |-> overall_score(scores),
                      strengths |-> sf[1], fixes |-> sf[2],
                      csv |-> csv_rows(scores)]
    /\ pc' = "done"
    /\ UNCHANGED <<session, wizard, args>>

NextResults == ResultsRender

SpecResults == InitResults /\ [][NextResults]_vars

-----------------------------------------------------------------------------
(* Properties of the rendered results, checked under SpecResults.          *)

\* C12: the overall score is the rounded arithmetic mean of the reported
\* percents of the six domains of DOMAINS, each included whether or not an
\* answered scenario contributed to it.
C12_OverallIsMean ==
    pc = "done"
    => /\ Len(DOMAINS) = 6
       /\ \A i \in 1..Len(DOMAINS) : DictHas(result.scores, DOMAINS[i])
       /\ result.overall.score =
             round(Rat(SumSeq([i \in 1..Len(DOMAINS) |->
                                  DictAt(result.scores, DOMAINS[i]).score]), 6))

\* C12's case: some domain got nothing, another got something.
C12_Witness ==
    /\ pc = "done"
    /\ \E i, j \in 1..Len(result.scores) :
          /\ result.scores[i][2].score = 0
          /\ result.scores[j][2].score > 0
    /\ result.overall.score > 0

\* C15: the scores hold exactly one entry, with a score, a colour and a
\* label, for each domain of DOMAINS and none for any other name, also when
\* nothing is answered; the CSV export has one row per domain.
C15_OneEntryPerDomain ==
    pc = "done"
    => /\ DictKeys(result.scores) = Range(DOMAINS)
       /\ Len(result.scores) = Cardinality(Range(DOMAINS))
       /\ \A i \in 1..Len(result.scores) :
             DOMAIN result.scores[i][2] = {"score", "colour", "label"}
       /\ Len(result.csv) = Len(DOMAINS)
       /\ \A d \in Range(DOMAINS) :
             Cardinality({i \in 1..Len(result.csv) : result.csv[i].Domain = d}) = 1

\* C15's case: results rendered with no scenario answered.
C15_Witness ==
    /\ pc = "done"
    /\ sim_answers = <<>>
    /\ Len(result.scores) = 6
    /\ Len(result.csv) = 6

-----------------------------------------------------------------------------
(* src/newstreamlit.py: the action plan and the Markdown report.           *)
(*                                                                         *)
(* A state dict holds strings.  Unset stands for Python's None where the   *)
(* other values are strings.  The emoji that opens a recommendation is     *)
(* left out of its text.                                                   *)

Unset == "(None)"

\* state.get(key): the value stored under key, None when there is none
state_get(state, key) == DictGet(state, key, Unset)

\* governance_rules(score, tags), lines 174-186
governance_rules(score, tags) ==
    LET quick0 == IF RGe(score, Rat(12, 10))
                  THEN <<"Assign a clear cybersecurity lead (internal or MSP).",
                         "Publish a 1-page information-security policy approved by management.">>
                  ELSE <<>>
        found  == IF ~RGe(score, Rat(12, 10)) /\ RGe(score, Rat(6, 10))
                  THEN <<"Add cybersecurity to your annual planning/board agenda.",
                         "Maintain a simple risk/incident log reviewed quarterly.">>
                  ELSE <<>>
        nextl  == IF ~RGe(score, Rat(6, 10))
                  THEN <<"Integrate cyber metrics (incidents, MFA adoption) into leadership dashboards.">>
                  ELSE <<>>
        quick  == IF "size:Micro" \in tags /\ RGe(score, Rat(12, 10))
                  THEN Append(quick0, "For micro orgs, the owner can be the named security contact.")
                  ELSE quick0
    IN  [quick |-> quick, foundations |-> found, nextlvl |-> nextl]

\* baseline_hooks(state), lines 188-198
baseline_hooks(state) ==
    LET q1 == IF state_get(state, "df_website") = "Yes" /\ state_get(state, "df_https") # "Yes"
              THEN <<"Enable HTTPS and force redirect (HTTP->HTTPS).">> ELSE <<>>
        q2 == IF state_get(state, "df_email") \in {"No", "Partially"}
              THEN <<"Move to business email (M365/Google) and enforce MFA for all users.">>
              ELSE <<>>
        q3 == IF state_get(state, "bp_inventory") \notin {"Yes", "Partially"}
              THEN <<"Start a simple device inventory (sheet or MDM export).">> ELSE <<>>
        q4 == IF state_get(state, "bp_byod") \in {"Yes", "Sometimes"}
              THEN <<"Publish a BYOD rule of 5: screen lock, updates, disk encryption, MFA for email, approved apps.">>
              ELSE <<>>
    IN  q1 \o q2 \o q3 \o q4

\* tag_hooks(tags), lines 200-210
tag_hooks(tags) ==
    LET f  == <<"Turn on automatic OS & app updates; remove unsupported systems.",
                "Automate backups and test a restore quarterly.">>
        n1 == IF tags \cap {"infra:cloud", "system:pos", "geo:crossborder"} # {}
              THEN <<"Review key vendor contracts: breach notification, data location/transfer, and admin MFA.">>
              ELSE <<>>
        n2 == IF "payments:card" \in tags
              THEN <<"Confirm PCI DSS responsibilities with your PoS/PSP (often most of the burden is on the provider).">>
              ELSE <<>>
        n3 == IF tags \cap {"geo:eu", "geo:uk"} # {}
              THEN <<"Document GDPR basics: Records of Processing, DPAs, and a contact for data requests.">>
              ELSE <<>>
    IN  [foundations |-> f, nextlvl |-> n1 \o n2 \o n3]

\* build_plan running baseline_hooks twice
build_plan_hooks_twice(detailed_scores, tags, state) ==
    LET has == DictHas(detailed_scores, "Governance")
        gp  == IF has THEN governance_rules(DictAt(detailed_scores, "Governance"), tags)
               ELSE [quick |-> <<>>, foundations |-> <<>>, nextlvl |-> <<>>]
        bh  == IF state # <<>> THEN baseline_hooks(state) \o baseline_hooks(state) ELSE <<>>
        tn  == tag_hooks(tags)
        Q   == gp.quick \o bh
    IN  [quick |-> IF Q # <<>> THEN Q ELSE <<"No urgent quick wins detected.">>,
         foundations |-> gp.foundations \o tn.foundations,
         nextlvl |-> gp.nextlvl \o tn.nextlvl]

\* build_plan(detailed_scores, tags, state), lines 212-220; state is <<>>
\* for an empty dict or None
build_plan(detailed_scores, tags, state) ==
    LET has == DictHas(detailed_scores, "Governance")
        gp  == IF has THEN governance_rules(DictAt(detailed_scores, "Governance"), tags)
               ELSE [quick |-> <<>>, foundations |-> <<>>, nextlvl |-> <<>>]
        bh  == IF state # <<>> THEN baseline_hooks(state) ELSE <<>>
        tn  == tag_hooks(tags)
        Q   == gp.quick \o bh
    IN  [quick |-> IF Q # <<>> THEN Q ELSE <<"No urgent quick wins detected.">>,
         foundations |-> gp.foundations \o tn.foundations,
         nextlvl |-> gp.nextlvl \o tn.nextlvl]

\* str(x) of a float x of at most two decimals, x >= 0: "0.5", "1.0", "1.25"
str_float(x) ==
    LET k    == (x.n * 100) \div x.d
        frac == k % 100
    IN  ToString(k \div 100) \o "." \o
        (IF frac % 10 = 0 THEN ToString(frac \div 10)
         ELSE ToString(frac \div 10) \o ToString(frac % 10))

\* the level of a section score (line 246)
level_of(sc) ==
    IF RLt(sc, Rat(5, 10)) THEN "Low"
    ELSE IF RLt(sc, Rat(12, 10)) THEN "Medium"
    ELSE "High"

\* the line of one entry of scores (line 247)
status_line(sid, sc) ==
    "- " \o sid \o ": " \o level_of(sc) \o " (score " \o str_float(sc) \o ")"

\* [lines.append(f"- {x}") for x in items]
bullets(items) == List([i \in 1..Len(items) |-> "- " \o items[i]])

\* "\n".join(lines): the text as its lines with a newline between any two
RECURSIVE join_lines(_)
join_lines(lines) ==
    IF lines = <<>> THEN <<>>
    ELSE IF Len(lines) = 1 THEN lines
    ELSE <<Head(lines), "\n">> \o join_lines(Tail(lines))

\* the lines a joined text splits into at its newlines
RECURSIVE split_lines(_)
split_lines(text) ==
    IF text = <<>> THEN <<>>
    ELSE IF Len(text) = 1 THEN text
    ELSE <<Head(text)>> \o split_lines(Tail(Tail(text)))

\* the status lines with the scores read last to first
status_lines_reversed(scores) ==
    List([i \in 1..Len(scores) |->
            status_line(scores[Len(scores) + 1 - i][1], scores[Len(scores) + 1 - i][2])])

\* for sid, sc in scores.items(): one line each (lines 245-247)
status_lines(scores) ==
    List([i \in 1..Len(scores) |-> status_line(scores[i][1], scores[i][2])])

\* the list lines of build_markdown_report, lines 234-252
report_lines(state, plan, scores) ==
    <<"# SME Cybersecurity Self-Assessment - Summary & Action Plan", "", "## Snapshot",
      "- Business: " \o DictGet(state, "company_name", "-"),
      "- Region: " \o DictGet(state, "business_region", "-"),
      "- Industry: " \o DictGet(state, "industry", "-"),
      "- Size (derived): " \o DictGet(state, "derived_size", "-"),
      "">>
    \o (IF scores # <<>>
        THEN <<"## Section status">>
             \o status_lines(scores)
             \o <<"">>
        ELSE <<>>)
    \o <<"## Action plan", "### Quick wins">> \o bullets(plan.quick)
    \o <<"### Foundations">> \o bullets(plan.foundations)
    \o <<"### Next-level / compliance">> \o bullets(plan.nextlvl)

\* build_markdown_report(state, plan, scores), lines 233-253
build_markdown_report(state, plan, scores) == join_lines(report_lines(state, plan, scores))

-----------------------------------------------------------------------------
(* Direct calls of build_plan and build_markdown_report on bounded inputs. *)

\* section scores: hundredths on both sides of the level limits 0.5 and 1.2
GenSectionScores == {R(0), Rat(49, 100), Rat(5, 10), Rat(119, 100), Rat(12, 10), R(2)}

\* section names, among them the one build_plan reads
GenSections == {"Access & Identity", "Governance", "Vendor & Cloud"}

\* scores dicts: distinct sections in any order, any scores
GenScores ==
    {[i \in 1..Len(ks) |-> <<ks[i], vs[i]>>] :
        <<ks, vs>> \in {p \in InjSeqs(GenSections, Cardinality(GenSections))
                              \X UNION {[1..k -> GenSectionScores] : k \in 0..Cardinality(GenSections)} :
                           Len(p[1]) = Len(p[2])}}

\* the state of the report: with or without a business name
GenReportStates ==
    { <<>>,
      << <<"company_name", "Acme">>, <<"business_region", "EU / EEA">>,
         <<"industry", "Other">>, <<"derived_size", "Micro">> >> }

\* the tags of the plan printed in the report
GenReportTags == { {}, {"size:Micro", "infra:cloud", "geo:eu"} }

InitReport ==
    /\ FreshSession
    /\ pc = "call"
    /\ \E st \in GenReportStates, tg \in GenReportTags, sc \in GenScores :
          args = [state |-> st, plan |-> build_plan(sc, tg, st), scores |-> sc]
    /\ result = <<>>

\* build_markdown_report(state, plan, scores) returns
ReportCall ==
    /\ pc = "call"
    /\ result' = build_markdown_report(args.state, args.plan, args.scores)
    /\ pc' = "done"
    /\ UNCHANGED <<session, wizard, args>>

NextReport == ReportCall

SpecReport == InitReport /\ [][NextReport]_vars

\* the places of a line among the lines of the returned text
PlacesOf(line) ==
    LET lines == split_lines(result)
    IN  {k \in 1..Len(lines) : lines[k] = line}

\* the line the claim gives for entry i of the scores
ExpectedLine(i) ==
    LET sid == args.scores[i][1]
        sc  == args.scores[i][2]
        lvl == IF RLt(sc, Rat(1, 2)) THEN "Low"
               ELSE IF RLt(sc, Rat(6, 5)) THEN "Medium" ELSE "High"
    IN  "- " \o sid \o ": " \o lvl \o " (score " \o str_float(sc) \o ")"

\* C13: the report holds, for every entry of scores, exactly one line
\* "- {domain}: {level} (score {value})", and these lines come in the
\* iteration order of scores.
C13_OneBulletPerEntry ==
    pc = "done"
    => /\ \A i \in 1..Len(args.scores) : Cardinality(PlacesOf(ExpectedLine(i))) = 1
       /\ \A i, j \in 1..Len(args.scores) :
             i < j => \A a \in PlacesOf(ExpectedLine(i)), b \in PlacesOf(ExpectedLine(j)) : a < b

\* C13's case: a report of three sections, Governance first.
C13_Witness ==
    /\ pc = "done"
    /\ Len(args.scores) = 3
    /\ args.scores[1][1] = "Governance"
    /\ PlacesOf("- Governance: High (score 1.2)") # {}

-----------------------------------------------------------------------------
(* Order and sum properties of score_selection, checked under SpecScore.   *)
(* The option lists hold no text twice, as every list of the catalog, and  *)
(* a selection holds no text twice, as a multiselect returns it.           *)

\* the sequence s read in the order p
Permuted(s, p) == [i \in 1..Len(s) |-> s[p[i]]]

PickedWeight(options, selected) ==
    SumSeq([i \in 1..Len(options) |->
               IF options[i].text \in Range(selected) THEN options[i].weight ELSE 0])

-----------------------------------------------------------------------------
(* Direct calls of the two recommendation builders, build_plan and         *)
(* strengths_and_fixes, on bounded inputs.                                 *)

\* Governance scores on both sides of the limits 0.6 and 1.2
GenGovernance == {R(0), Rat(59, 100), Rat(6, 10), Rat(119, 100), Rat(12, 10), R(2)}

\* detailed scores: without Governance, or with it after another section
GenDetailed ==
    { <<>>, << <<"Access & Identity", R(1)>> >> }
        \cup { << <<"Access & Identity", R(1)>>, <<"Governance", g>> >> : g \in GenGovernance }

\* the tags the rules read
GenTags ==
    SUBSET {"size:Micro", "infra:cloud", "system:pos", "geo:crossborder",
            "payments:card", "geo:eu", "geo:uk"}

\* baseline states: no state, or the five answers the hooks read
GenBaseline ==
    { <<>> } \cup
    { << <<"df_website", w>>, <<"df_https", h>>, <<"df_email", e>>,
         <<"bp_inventory", i>>, <<"bp_byod", b>> >> :
        w \in {"Yes", "No", Unset}, h \in {"Yes", "No"}, e \in {"Yes", "No", "Partially"},
        i \in {"Yes", Unset}, b \in {"Yes", "No", "Sometimes"} }

InitLists ==
    /\ FreshSession
    /\ pc = "call"
    /\ \/ \E sc \in GenDetailed, tg \in GenTags, st \in GenBaseline :
             args = [fn |-> "build_plan", detailed_scores |-> sc, tags |-> tg, state |-> st]
       \/ \E sims \in GenSims :
             args = [fn |-> "strengths_and_fixes", sim_answers |-> sims]
    /\ result = <<>>

\* build_plan(detailed_scores, tags, state) returns its three buckets
PlanCall ==
    /\ pc = "call"
    /\ args.fn = "build_plan"
    /\ LET plan == build_plan(args.detailed_scores, args.tags, args.state)
       IN  result' = <<plan.quick, plan.foundations, plan.nextlvl>>
    /\ pc' = "done"
    /\ UNCHANGED <<session, wizard, args>>

\* strengths_and_fixes(sim_answers) returns its two lists
StrengthsCall ==
    /\ pc = "call"
    /\ args.fn = "strengths_and_fixes"
    /\ result' = strengths_and_fixes(args.sim_answers)
    /\ pc' = "done"
    /\ UNCHANGED <<session, wizard, args>>

NextLists == PlanCall \/ StrengthsCall

SpecLists == InitLists /\ [][NextLists]_vars

\* the list holds no string twice
NoRepeat(list) == \A i, j \in 1..Len(list) : i # j => list[i] # list[j]

\* C16: none of the lists of recommendations (quick, foundations and nextlvl
\* of build_plan, strengths and fixes of strengths_and_fixes) holds a string
\* twice.
C16_NoRepeatedRecommendation ==
    pc = "done" => \A k \in 1..Len(result) : NoRepeat(result[k])

\* C16's case: a plan whose quick wins come from the governance rules, the
\* micro-organisation rule and all four baseline hooks.
C16_Witness ==
    /\ pc = "done"
    /\ args.fn = "build_plan"
    /\ Len(result) = 3
    /\ Len(result[1]) = 7
    /\ Len(result[2]) = 2
    /\ Len(result[3]) = 3

-----------------------------------------------------------------------------
(* The frame of the calibration, checked under SpecEval.                   *)

\* C18: the calibration changes the Email & Awareness entry only: contrib
\* has exactly the domains of the scenario's domain_map, and every other
\* domain's entry is base * proportion whatever the confidence.
C18_CalibrationFrame ==
    pc = "done"
    => LET dm == SCENARIOS[args.scn].domain_map
       IN  /\ Len(result.contrib) = Len(dm)
           /\ DictKeys(result.contrib) = DictKeys(dm)
           /\ \A d \in DictKeys(dm) \ {Awareness} :
                 DictAt(result.contrib, d) = RMul(ExactBase, DictAt(dm, d))

\* C18's case: a confident good answer to a scenario that does not map
\* Email & Awareness, so the +5 has no entry to go to.
C18_Witness ==
    /\ pc = "done"
    /\ ~DictHas(SCENARIOS[args.scn].domain_map, Awareness)
    /\ calibration(ExactBase, args.confidence) = R(5)
    /\ ~DictHas(result.contrib, Awareness)

-----------------------------------------------------------------------------
(* The stages of the wizard, checked under Spec.                           *)

Stages == {"intake", "qa", "done_initial", "sim_qa", "sim_results"}

\* the changes of stage the wizard makes, a restart from any stage aside
StageSteps ==
    { <<"intake", "qa">>, <<"qa", "done_initial">>, <<"done_initial", "sim_qa">>,
      <<"sim_qa", "sim_results">>, <<"sim_results", "sim_qa">> }

\* C20: stage is always one of intake, qa, done_initial, sim_qa and
\* sim_results, and every change of stage is intake->qa, qa->done_initial,
\* done_initial->sim_qa, sim_qa->sim_results, sim_results->sim_qa or a
\* restart to intake: no forward stage is skipped.
C20_StageTransitions ==
    /\ stage \in Stages
    /\ [][ /\ stage' \in Stages
           /\ stage' # stage => (<<stage, stage'>> \in StageSteps \/ stage' = "intake")
         ]_vars

\* C20's case: the scenario pages shown again after the results, every
\* scenario answered (the last answer leads to the results, so this is
\* reached through "Review scenarios" only).
C20_Witness ==
    /\ stage = "sim_qa"
    /\ Len(sim_answers) = SIM_TOTAL

-----------------------------------------------------------------------------
(* newstreamlit.py, the wizard.  One script run is one step: the sidebar   *)
(* radio gives choice, NAV[choice]() renders the page and handles what the *)
(* user did, and line 450 stores choice as the page.  ns holds the keys of *)
(* st.session_state that the script reads or assigns; the keys             *)
(* "pretty__..." owned by the radios of radio_emoji are read by no code    *)
(* and are left out.  The emoji of a NAV key is written as a tag in square *)
(* brackets.                                                               *)

\* SECTIONS, lines 34-85: title, and the id and weight of every question
SECTIONS ==
    LET q(id) == [id |-> id, weight |-> R(1)]
    IN  << [title |-> "Access & Identity",
            questions |-> <<q("ai_pw"), q("ai_mfa"), q("ai_admin"), q("ai_shared"),
                            q("ai_leavers")>>],
           [title |-> "Device & Data",
            questions |-> <<q("dd_lock"), q("dd_fde"), q("dd_edr"), q("dd_backup"),
                            q("dd_restore"), q("dd_usb"), q("dd_wifi")>>],
           [title |-> "System & Software Updates",
            questions |-> <<q("su_os_auto"), q("su_apps"), q("su_unsupported"),
                            q("su_review")>>],
           [title |-> "Incident Preparedness",
            questions |-> <<q("ip_report"), q("ip_plan"), q("ip_log"), q("ip_contacts"),
                            q("ip_test")>>],
           [title |-> "Vendor & Cloud",
            questions |-> <<q("vc_cloud"), q("vc_mfa"), q("vc_review"), q("vc_access"),
                            q("vc_notify")>>],
           [title |-> "Awareness & Training",
            questions |-> <<q("at_training"), q("at_phish"), q("at_onboard"),
                            q("at_reminders"), q("at_lead")>>],
           [title |-> "Governance",
            questions |-> <<q("gov_roles"), q("gov_policy"), q("gov_review"),
                            q("gov_risk"), q("gov_comms")>>] >>

\* the plain choices of radio_emoji, line 116
plain == <<"Yes", "Partially", "No", "Not sure">>

\* RISK_MAP.get(v, 1.0), lines 126 and 131
RISK_MAP(v) ==
    CASE v = "Yes" -> R(0)
      [] v = "Partially" -> R(1)
      [] v = "Not sure" -> R(1)
      [] v = "No" -> R(2)
      [] OTHER -> R(1)

\* round(x, 2) of Python
round2(x) == Rat(round(RMul(x, R(100))), 100)

\* the sum of RISK_MAP.get(v) * wi over zip(vals, w), from position i on
RECURSIVE risk_sum(_, _, _)
risk_sum(vals, w, i) ==
    IF i > Len(vals) \/ i > Len(w) THEN R(0)
    ELSE RAdd(RMul(RISK_MAP(vals[i]), w[i]), risk_sum(vals, w, i + 1))

\* the sum of the weights, from position i on
RECURSIVE weight_sum(_, _)
weight_sum(w, i) ==
    IF i > Len(w) THEN R(0) ELSE RAdd(w[i], weight_sum(w, i + 1))

\* section_score(vals, weights), lines 128-133
section_score(vals, weights) ==
    IF vals = <<>> THEN R(0)
    ELSE LET w   == IF weights # <<>> THEN weights ELSE [i \in 1..Len(vals) |-> R(1)]
             num == risk_sum(vals, w, 1)
             den == weight_sum(w, 1)
         IN  IF den.n # 0 THEN round2(RDiv(num, den)) ELSE R(0)

BASELINE_IDS ==
    {"Access & Identity", "Device & Data", "System & Software Updates", "Awareness & Training"}

ORDER ==
    <<"Access & Identity", "Device & Data", "System & Software Updates",
      "Incident Preparedness", "Vendor & Cloud", "Awareness & Training", "Governance">>

\* compute_tags(state), lines 146-161.  No page stores data_types, so the
\* loop of lines 154-159 runs over the default, the empty list; of the
\* spellings line 160 accepts, the pages use Yes.
compute_tags(state) ==
    LET env == DictGet(state, "primary_work_env", "Cloud apps")
    IN  {"size:" \o DictGet(state, "derived_size", "Small"),
         "industry:" \o DictGet(state, "industry_tag", "other"),
         "geo:" \o DictGet(state, "region_tag", "eu"),
         IF env = "Cloud apps" THEN "infra:cloud"
         ELSE IF env = "Local servers" THEN "infra:onprem" ELSE "infra:hybrid"}
    \cup (IF DictGet(state, "bp_card_payments", "No") = "Yes" THEN {"payments:card"} ELSE {})

\* pick_active_sections(tags), lines 163-169
pick_active_sections(tags) ==
    LET a1 == IF {"size:Small", "size:Medium"} \cap tags # {}
              THEN {"Incident Preparedness", "Governance"} ELSE {}
        a2 == IF {"infra:cloud", "system:pos", "geo:crossborder"} \cap tags # {}
              THEN {"Vendor & Cloud"} ELSE {}
        active == BASELINE_IDS \cup a1 \cup a2
    IN  SelectSeq(ORDER, LAMBDA sid : sid \in active)

\* the keys of NAV in the order of the dict, lines 439-447
NAV ==
    <<"[flag] Landing", "[compass] Step 1", "[magnifier] Step 2", "[chart] Summary",
      "[puzzle] Detailed", "[map] Report", "[hook] Phish Demo">>

\* what the user did to start a script run: nothing (the first run), a
\* selection in the sidebar, a click on the primary button of the page, or
\* a new value given to the widget key of the page
NoEvent == [kind |-> "none"]

Selected(k) == [kind |-> "select", value |-> k]

Clicked == [kind |-> "click"]

Edited(key, v) == [kind |-> "edit", key |-> key, value |-> v]

\* the value a widget returns: the user's new value, else the value it kept
widget(e, key, kept) ==
    IF e.kind = "edit" /\ e.key = key THEN e.value ELSE kept

\* st.button(..., type="primary") of the page
button(e) == e.kind = "click"

\* the page the previous run rendered, as line 450 stored it
rendered(s) == DictGet(s, "page", Unset)

\* radio_emoji(prompt, key), lines 114-121
radio_emoji(s, e, key) ==
    LET cur == DictGet(s, key, "Partially")
        at  == IF \E i \in 1..Len(plain) : plain[i] = cur
               THEN CHOOSE i \in 1..Len(plain) : plain[i] = cur
               ELSE 2
    IN  DictSet(s, key, widget(e, key, plain[at]))

\* page_landing(), lines 274-286
page_landing(s, e) ==
    IF button(e) THEN DictSet(s, "page", "Step 1") ELSE s

\* page_step1(), lines 288-299.  The three selectboxes have no key and a
\* fixed index: they keep their value while the page is rendered run after
\* run and start again from the index when it was not.
page_step1(s, e) ==
    LET shown == rendered(s) = "[compass] Step 1"
        s1 == DictSet(s, "company_name",
                      widget(e, "company_name", DictGet(s, "company_name", "")))
        s2 == DictSet(s1, "business_region",
                      widget(e, "business_region",
                             IF shown THEN DictGet(s, "business_region", "EU / EEA")
                             ELSE "EU / EEA"))
        s3 == DictSet(s2, "industry",
                      widget(e, "industry",
                             IF shown THEN DictGet(s, "industry", "Retail & Hospitality")
                             ELSE "Retail & Hospitality"))
        s4 == DictSet(s3, "derived_size",
                      widget(e, "derived_size",
                             IF shown THEN DictGet(s, "derived_size", "Small")
                             ELSE "Small"))
    IN  IF button(e) THEN DictSet(s4, "page", "Step 2") ELSE s4

\* page_step2(), lines 301-314.  The radio of line 308 owns the key
\* df_website: its value is in the session while the page is rendered.
page_step2(s, e) ==
    LET s1 == radio_emoji(s, e, "bp_inventory")
        s2 == radio_emoji(s1, e, "bp_sensitive")
        s3 == DictSet(s2, "df_website", widget(e, "df_website", DictGet(s, "df_website", "Yes")))
        s4 == radio_emoji(s3, e, "df_https")
        s5 == radio_emoji(s4, e, "df_email")
        s6 == radio_emoji(s5, e, "bp_byod")
    IN  IF button(e) THEN DictSet(s6, "page", "Summary") ELSE s6

\* page_summary(), lines 332-345: the chips and hints are only displayed
page_summary(s, e) ==
    IF button(e) THEN DictSet(s, "page", "Detailed") ELSE s

\* the sections page_detailed renders, lines 350-359
active_ids(s) ==
    LET state == << <<"derived_size", DictGet(s, "derived_size", "Small")>>,
                    <<"industry_tag", DictGet(s, "industry", "other")>>,
                    <<"region_tag", "eu">>,
                    <<"primary_work_env", DictGet(s, "primary_work_env", "Cloud apps")>>,
                    <<"bp_card_payments", DictGet(s, "bp_card_payments", "No")>> >>
        picked == pick_active_sections(compute_tags(state))
    IN  IF picked # <<>> THEN {picked[i] : i \in 1..Len(picked)}
        ELSE {SECTIONS[i].title : i \in 1..Len(SECTIONS)}

\* the session after the radios of the first j questions of a section
\* (line 366)
RECURSIVE ask(_, _, _, _)
ask(s, e, questions, j) ==
    IF j = 0 THEN s
    ELSE radio_emoji(ask(s, e, questions, j - 1), e, questions[j].id)

\* the body of the loop of lines 361-369 for section i: before and the
\* result hold the session and the dict stored under detailed_scores
section(before, e, act, i) ==
    LET qs      == SECTIONS[i].questions
        s1      == ask(before.session, e, qs, Len(qs))
        vals    == List([j \in 1..Len(qs) |-> DictGet(s1, qs[j].id, "Partially")])
        weights == List([j \in 1..Len(qs) |-> qs[j].weight])
    IN  IF SECTIONS[i].title \notin act THEN before
        ELSE [session |-> s1,
              scores |-> DictSet(before.scores, SECTIONS[i].title,
                                 section_score(vals, weights))]

\* the loop of lines 361-369 after the first i sections (the set binds the
\* state before section i once it is computed)
RECURSIVE detail(_, _, _, _)
detail(s, e, act, i) ==
    IF i = 0 THEN [session |-> s, scores |-> <<>>]
    ELSE CHOOSE after \in {section(before, e, act, i) :
                              before \in {detail(s, e, act, i - 1)}} : TRUE

\* page_detailed(), lines 347-371
page_detailed(s, e) ==
    LET after == detail(DictSet(s, "detailed_scores", <<>>), e, active_ids(s), Len(SECTIONS))
        s1    == DictSet(after.session, "detailed_scores", after.scores)
    IN  IF button(e) THEN DictSet(s1, "page", "Report") ELSE s1

\* page_report(), lines 373-414, and page_phish(), lines 416-434, display
\* and offer downloads; they assign nothing in the session
page_report(s, e) == s

page_phish(s, e) == s

\* NAV[k]()
page(k, s, e) ==
    CASE k = "[flag] Landing" -> page_landing(s, e)
      [] k = "[compass] Step 1" -> page_step1(s, e)
      [] k = "[magnifier] Step 2" -> page_step2(s, e)
      [] k = "[chart] Summary" -> page_summary(s, e)
      [] k = "[puzzle] Detailed" -> page_detailed(s, e)
      [] k = "[map] Report" -> page_report(s, e)
      [] k = "[hook] Phish Demo" -> page_phish(s, e)

\* the sidebar radio of line 448: the user's selection, else the option at
\* the index of the stored page
sidebar(s, e) ==
    IF e.kind = "select" THEN e.value ELSE DictGet(s, "page", "[flag] Landing")

\* a widget key that was not rendered in the run leaves the session when the
\* run ends
drop_stale(s, k) ==
    IF k = "[magnifier] Step 2" THEN s ELSE DictPop(s, "df_website")

\* one run of the script in which line 450 leaves alone what a clicked
\* button stored
Run_keeping_button_target(e) ==
    LET k == sidebar(ns, e)
    IN  /\ choice' = k
        /\ pressed' = button(e)
        /\ ns' = drop_stale(IF button(e) THEN page(k, ns, e)
                            ELSE DictSet(page(k, ns, e), "page", k), k)
        /\ UNCHANGED <<session, call>>

\* one run of the script, lines 448-450
Run(e) ==
    LET k == sidebar(ns, e)
    IN  /\ choice' = k
        /\ pressed' = button(e)
        /\ ns' = drop_stale(DictSet(page(k, ns, e), "page", k), k)
        /\ UNCHANGED <<session, call>>

-----------------------------------------------------------------------------
(* The wizard of newstreamlit.py under a user who opens the app, navigates *)
(* in the sidebar, clicks the primary buttons and edits some widgets.      *)

\* the business names typed in step 1
GenNames == {"", "Acme"}

\* the options of the size selectbox, line 297
Sizes == {"Micro", "Small", "Medium"}

\* the answers the user gives: the default is Partially
GenPicks == {"Yes", "No"}

\* the quick checks of step 2 the user answers
GenChecks == {"df_https"}

\* the questions of the detailed assessment the user answers
GenQuestions == {"gov_roles"}

\* the pages that end with a primary button
Buttoned ==
    {"[flag] Landing", "[compass] Step 1", "[magnifier] Step 2", "[chart] Summary",
     "[puzzle] Detailed"}

\* the ids of the questions page_detailed renders in session s
asked(s) ==
    {SECTIONS[i].questions[j].id :
        <<i, j>> \in {p \in (1..Len(SECTIONS)) \X (1..7) :
                        /\ p[2] <= Len(SECTIONS[p[1]].questions)
                        /\ SECTIONS[p[1]].title \in active_ids(s)}}

InitWizard ==
    /\ FreshSession
    /\ pc = "idle"
    /\ args = <<>>
    /\ result = <<>>

\* the browser opens the app: the first run of the script
OpenApp ==
    /\ ns = <<>>
    /\ Run(NoEvent)

\* the user selects a page in the sidebar
Navigate ==
    /\ ns # <<>>
    /\ \E k \in {NAV[i] : i \in 1..Len(NAV)} : Run(Selected(k))

\* the user clicks the primary button of the page on screen
ClickPrimary ==
    /\ rendered(ns) \in Buttoned
    /\ Run(Clicked)

\* the user types a business name or picks a size in step 1
EditStep1 ==
    /\ rendered(ns) = "[compass] Step 1"
    /\ \/ \E v \in GenNames : Run(Edited("company_name", v))
       \/ \E v \in Sizes : Run(Edited("derived_size", v))

\* the user answers a quick check or the website question of step 2
EditStep2 ==
    /\ rendered(ns) = "[magnifier] Step 2"
    /\ \/ \E key \in GenChecks, v \in GenPicks : Run(Edited(key, v))
       \/ \E v \in {"Yes", "No"} : Run(Edited("df_website", v))

\* the user answers a question of the detailed assessment
EditDetailed ==
    /\ rendered(ns) = "[puzzle] Detailed"
    /\ \E key \in GenQuestions \cap asked(ns), v \in GenPicks : Run(Edited(key, v))

NextWizard ==
    \/ OpenApp
    \/ Navigate
    \/ ClickPrimary
    \/ EditStep1
    \/ EditStep2
    \/ EditDetailed

SpecWizard == InitWizard /\ [][NextWizard]_vars

\* the key of the page after k in NAV
NextPage(k) ==
    LET i == CHOOSE j \in 1..Len(NAV) : NAV[j] = k
    IN  NAV[i + 1]

\* C19: when a run handled a click on the primary button of the page it
\* rendered, the page it leaves in the session is the next page of the
\* wizard, which the next run then renders: Landing, Step 1, Step 2,
\* Summary, Detailed, Report in turn.
C19_PrimaryButtonAdvances ==
    pressed => sidebar(ns, NoEvent) = NextPage(choice)

-----------------------------------------------------------------------------
\* C21: after reset_all (the sidebar's Restart or "Restart whole
\* assessment"), from any reachable session state, stage = intake, idx = 0,
\* sim_idx = 0, answers and sim_answers are empty and every profile field is
\* empty (a typed field is a list of characters, a selected one a string):
\* the session is the one ss_init builds for a fresh session.
C21_ResetGivesFreshSession ==
    [][(Restart \/ RestartWhole)
         => /\ stage' = "intake"
            /\ idx' = 0
            /\ sim_idx' = 0
            /\ answers' = <<>>
            /\ sim_answers' = <<>>
            /\ DOMAIN profile' = {"contact_name", "business_name", "industry", "years",
                                  "headcount", "turnover", "work_mode"}
            /\ \A f \in {"contact_name", "business_name", "industry"} :
                  profile'[f] = <<>>
            /\ \A f \in {"years", "headcount", "turnover", "work_mode"} :
                  profile'[f] = ""]_vars

\* a session on the results page in which every key differs from its
\* default, where both restart buttons are offered
C21_Witness ==
    /\ stage = "sim_results"
    /\ profile # EmptyProfile
    /\ answers # <<>>
    /\ idx # 0
    /\ sim_idx # 0
    /\ sim_answers # <<>>

-----------------------------------------------------------------------------
(* One press of "Save & Next" on a scenario page, from the sessions the    *)
(* simulation wizard reaches: any page of the wizard, any scenarios         *)
(* answered before, any selection on screen.                                *)

InitSave ==
    /\ stage = "sim_qa"
    /\ profile = [EmptyProfile EXCEPT !.years = "<1 year", !.headcount = "Just me",
                                      !.turnover = "<EUR100k",
                                      !.work_mode = "Local & in-person"]
    /\ answers = answers_upto(TOTAL)
    /\ idx = TOTAL - 1
    /\ sim_idx \in 0..(SIM_TOTAL - 1)
    /\ sim_answers \in GenSims
    /\ pc = "call"
    /\ \E resp \in SimInputs(sim_idx + 1) :
          args = [i |-> sim_idx, before |-> sim_answers, selected |-> resp]
    /\ result = <<>>
    /\ NoWizard

\* the handler of lines 698-707 on the selection on screen
SaveNextCall ==
    /\ pc = "call"
    /\ sim_answers' = sim_save(sim_answers, sim_idx, args.selected)
    /\ sim_forward
    /\ pc' = "done"
    /\ UNCHANGED <<profile, answers, idx, wizard, args, result>>

NextSave == SaveNextCall

SpecSave == InitSave /\ [][NextSave]_vars

\* C22: Save & Next on scenario i sets the stored Response of scenario i to
\* the selected cues, actions and confidence, creating or overwriting it,
\* and leaves the Responses of all other scenarios unchanged.
C22_SaveNextFrame ==
    pc = "done"
    => LET sid == SCENARIOS[args.i + 1].id
       IN  /\ DictHas(sim_answers, sid)
           /\ Cardinality({k \in 1..Len(sim_answers) : sim_answers[k][1] = sid}) = 1
           /\ DOMAIN DictAt(sim_answers, sid) = {"cues", "actions", "confidence"}
           /\ DictAt(sim_answers, sid).cues = args.selected.cues
           /\ DictAt(sim_answers, sid).actions = args.selected.actions
           /\ DictAt(sim_answers, sid).confidence = args.selected.confidence
           /\ \A o \in ScenarioIds \ {sid} :
                 /\ DictHas(sim_answers, o) = DictHas(args.before, o)
                 /\ DictHas(args.before, o)
                    => DictAt(sim_answers, o) = DictAt(args.before, o)

\* the response of a scenario is overwritten by a different one while two
\* other scenarios hold responses
C22_Witness ==
    /\ pc = "done"
    /\ DictHas(args.before, SCENARIOS[args.i + 1].id)
    /\ DictAt(args.before, SCENARIOS[args.i + 1].id) # args.selected
    /\ Len(args.before) >= 3

-----------------------------------------------------------------------------
\* the text of the action option of scenario sid that carries the tag
\* oob_verify
OobText(sid) ==
    LET scn == CHOOSE s \in Range(SCENARIOS) : s.id = sid
        o   == CHOOSE x \in Range(scn.tasks.actions.options) : x.tag = "oob_verify"
    IN  o.text

\* scenario sid is answered and its selected actions leave out the
\* oob_verify option
AnsweredWithoutOob(sid) ==
    /\ DictHas(sim_answers, sid)
    /\ OobText(sid) \notin Range(DictAt(sim_answers, sid).actions)

\* C23: the fixes returned by strengths_and_fixes contain the two-channel
\* verification recommendation for every answered invoice (s1_invoice) or
\* CEO-fraud (s2_ceo) scenario whose selected actions do not include the
\* oob_verify option; an unanswered scenario triggers no fix: the
\* recommendation is absent when neither scenario is answered without the
\* option, a fix for a missing good practice needs its scenario answered,
\* and with no scenario answered there is no fix at all.
C23_TwoChannelFix ==
    pc = "done"
    => LET fixes == Range(result.fixes)
       IN  /\ ("Introduce two-channel verification for payments and account changes."
                 \in fixes)
              <=> (AnsweredWithoutOob("s1_invoice") \/ AnsweredWithoutOob("s2_ceo"))
           /\ "Ensure MDM can remote-lock/wipe and revoke sessions quickly." \in fixes
              => DictHas(sim_answers, "s4_laptop")
           /\ "Enable an easy 'report phishing' button and teach 'navigate, don't click'."
                 \in fixes
              => DictHas(sim_answers, "s3_reset")
           /\ "Require expiring, least-privilege cloud links; disable 'Anyone with link'."
                 \in fixes
              => DictHas(sim_answers, "s5_share")
           /\ sim_answers = <<>> => result.fixes = <<>>

\* the CEO-fraud scenario alone asks for the recommendation: it is answered
\* without the option, the invoice scenario is answered with it, and a third
\* scenario is unanswered
C23_Witness ==
    /\ pc = "done"
    /\ AnsweredWithoutOob("s2_ceo")
    /\ DictHas(sim_answers, "s1_invoice")
    /\ ~AnsweredWithoutOob("s1_invoice")
    /\ ~DictHas(sim_answers, "s4_laptop")
    /\ "Introduce two-channel verification for payments and account changes."
          \in Range(result.fixes)

-----------------------------------------------------------------------------
(* The feedback lists of evaluate_scenario, checked under SpecEval.        *)

\* the catalog positions of the positive cues of the evaluated scenario that
\* are not selected
MissedPlaces ==
    LET cues == SCENARIOS[args.scn].tasks.cues.options
    IN  {k \in 1..Len(cues) : cues[k].weight > 0 /\ cues[k].text \notin Range(args.cues)}

\* C24: good_actions and risky_actions partition the selected action texts
\* that exist in the catalog: a selected action is in good_actions exactly
\* when its weight is > 0 and in risky_actions exactly when its weight is
\* <= 0; missed_cues holds at most 2 texts, the first unselected
\* positive-weight cues in catalog order.
C24_FeedbackLists ==
    pc = "done"
    => LET opts   == SCENARIOS[args.scn].tasks.actions.options
           cues   == SCENARIOS[args.scn].tasks.cues.options
           chosen == {o \in Range(opts) : o.text \in Range(args.actions)}
           good   == Range(result.good_actions)
           risky  == Range(result.risky_actions)
           missed == result.missed_cues
       IN  /\ good = {o.text : o \in {x \in chosen : x.weight > 0}}
           /\ risky = {o.text : o \in {x \in chosen : x.weight <= 0}}
           /\ good \cap risky = {}
           /\ good \cup risky = {o.text : o \in chosen}
           /\ Len(result.good_actions) = Cardinality(good)
           /\ Len(result.risky_actions) = Cardinality(risky)
           /\ Len(missed) <= 2
           /\ Len(missed) = (IF Cardinality(MissedPlaces) < 2
                             THEN Cardinality(MissedPlaces) ELSE 2)
           /\ \A j \in 1..Len(missed) :
                 \E k \in MissedPlaces :
                    /\ missed[j] = cues[k].text
                    /\ Cardinality({m \in MissedPlaces : m < k}) = j - 1

\* a good and a risky action are selected and three positive cues are
\* left unselected, of which two are listed
C24_Witness ==
    /\ pc = "done"
    /\ result.good_actions # <<>>
    /\ result.risky_actions # <<>>
    /\ Cardinality(MissedPlaces) >= 3
    /\ Len(result.missed_cues) = 2

-----------------------------------------------------------------------------
\* C25: pressing Skip on scenario i removes any stored Response of scenario
\* i, so a scenario saved earlier, revisited through Back or Review
\* scenarios and skipped counts as unanswered in the results: it has no
\* stored response, no evaluation and no part in strengths and fixes, and
\* the other responses stay.
C25_SkipRemovesResponse ==
    [][SimSkip
         => LET sid == SCENARIOS[sim_idx + 1].id
            IN  /\ ~DictHas(sim_answers', sid)
                /\ sim_get(sim_answers', sid) = None
                /\ (sim_idx + 1) \notin answered(sim_answers')
                /\ \A o \in ScenarioIds \ {sid} :
                      sim_get(sim_answers', o) = sim_get(sim_answers, o)]_vars

\* the page of a scenario that holds a stored response is on screen again,
\* which only Back or Review scenarios bring about
C25_Witness ==
    /\ stage = "sim_qa"
    /\ DictHas(sim_answers, SCENARIOS[sim_idx + 1].id)

-----------------------------------------------------------------------------
\* C26: whenever stage = qa, 0 <= idx < TOTAL, and whenever stage = sim_qa,
\* 0 <= sim_idx < SIM_TOTAL, after any sequence of Back, Skip, Save & Next,
\* Review scenarios and Restart presses: QUESTIONS[idx] and
\* SCENARIOS[sim_idx] are never indexed out of range.
C26_IndexInRange ==
    /\ stage = "qa" => (0 <= idx /\ idx < TOTAL)
    /\ stage = "sim_qa" => (0 <= sim_idx /\ sim_idx < SIM_TOTAL)

\* the page of the last scenario, on screen with its response already
\* stored: the wizard was gone through and entered again
C26_Witness ==
    /\ stage = "sim_qa"
    /\ sim_idx = SIM_TOTAL - 1
    /\ idx = TOTAL - 1
    /\ DictHas(sim_answers, SCENARIOS[SIM_TOTAL].id)

-----------------------------------------------------------------------------
\* C27: in stage qa, Skip and Save & Next pressed from the same state lead
\* to the same next state (stage, idx and answers); the answer of the
\* question on screen is written to answers when the page renders, so it is
\* stored before either button is pressed and Skip leaves it stored.
C27_SkipSameAsSaveNext ==
    /\ stage = "qa" => DictHas(answers, QUESTIONS[idx + 1].id)
    /\ [][/\ QaSkip <=> QaSaveNext
          /\ QaSkip => /\ DictHas(answers', QUESTIONS[idx + 1].id)
                       /\ DictAt(answers', QUESTIONS[idx + 1].id)
                            = DictAt(answers, QUESTIONS[idx + 1].id)]_vars

\* a question past the first is on screen with an answer the user chose,
\* not the one the page writes by itself
C27_Witness ==
    /\ stage = "qa"
    /\ idx > 0
    /\ DictHas(answers, QUESTIONS[idx + 1].id)
    /\ DictAt(answers, QUESTIONS[idx + 1].id) # qa_default(<<>>, idx)

-----------------------------------------------------------------------------
\* C28: the overall label is the tier of the reported overall score: for
\* every reachable set of domain scores the label is Good exactly when the
\* rounded overall score is >= 75, Needs work exactly when it is in 40..74,
\* and At risk exactly when it is < 40.
C28_OverallLabelMatchesScore ==
    pc = "done" => result.overall.label = TierOf(result.overall.score)

\* C29: at the start of every script run of newstreamlit.py the stored page
\* is absent or one of the keys of NAV, whatever buttons were clicked in
\* earlier runs, so the index lookup of the sidebar radio never fails.
C29_PageIsNavKey ==
    DictHas(ns, "page") => DictAt(ns, "page") \in Range(NAV)

\* the last primary button of the wizard was clicked in the run before
C29_Witness ==
    /\ pressed
    /\ choice = "[puzzle] Detailed"
    /\ DictHas(ns, "page")
    /\ DictHas(ns, "detailed_scores")

-----------------------------------------------------------------------------
(* The user who only presses forward buttons: Start Initial Assessment,    *)
(* then Skip or Save & Next, then Continue to Simulations, then Skip or    *)
(* Save & Next, and keeps pressing while a forward button is on screen.    *)

NextForward ==
    \/ StartInitial
    \/ QaSkip
    \/ QaSaveNext
    \/ ContinueToSimulations
    \/ SimSkip
    \/ SimSaveNext

SpecForward == Init /\ [][NextForward]_vars /\ WF_vars(NextForward)

\* the forward presses behind a session that saw forward presses only
Presses ==
    CASE stage = "intake" -> 0
      [] stage = "qa" -> 1 + idx
      [] stage = "done_initial" -> 1 + TOTAL
      [] stage = "sim_qa" -> 1 + TOTAL + 1 + sim_idx
      [] stage = "sim_results" -> 1 + TOTAL + 1 + SIM_TOTAL

\* C30: starting from intake, a user who keeps pressing forward buttons and
\* never Back, Restart or Review eventually reaches stage sim_results, after
\* exactly 1 + TOTAL + 1 + SIM_TOTAL presses: the session starts with no
\* press behind it, every press adds exactly one, and sim_results is the
\* stage with 1 + TOTAL + 1 + SIM_TOTAL behind it.
C30_ForwardReachesResults ==
    /\ Presses = 0
    /\ [][Presses' = Presses + 1]_vars
    /\ [](stage = "sim_results" <=> Presses = 1 + TOTAL + 1 + SIM_TOTAL)
    /\ <>(stage = "sim_results")

\* the results page after the forward presses, every scenario saved
C30_Witness ==
    /\ stage = "sim_results"
    /\ Presses = 1 + TOTAL + 1 + SIM_TOTAL
    /\ Len(answers) = TOTAL
    /\ Len(sim_answers) = SIM_TOTAL
====
